------------------------------ MODULE Spec2Model ------------------------------
(***************************************************************************)
(* Model of the PDF paragraph tagger (src/all.py, src/entity.py): the      *)
(* symbol-to-entity transcoder, the span styler, the inline-markup         *)
(* escaper and the nested-section builder; and of the paragraph split and  *)
(* merge editor (src/zone.py); and of the region handlers of the tagger    *)
(* window (src/all.py): create, detect, split, tag, delete, undo, redo,    *)
(* export and import of regions.                                           *)
(*                                                                         *)
(* Text is a sequence of characters.  A character is a string: an ASCII    *)
(* character is the string of length one holding it, a non-ASCII character *)
(* is written "U+XXXX" (its code point in hexadecimal).                    *)
(***************************************************************************)
EXTENDS Integers, Sequences, FiniteSets, TLC

VARIABLES
  AUTO_ENTITIES,   \* src/all.py:25  global toggle
  NESTING_PREF,    \* src/all.py:26  "b_outside_i" or "i_outside_b"
  \* ---- escaper pipeline: one span of text, styled, then escaped
  span,            \* the text of the span (wrap_span_text's argument s)
  is_bold,         \* the style flags of the span
  is_italic,
  wrapped,         \* what wrap_span_text returned
  escaped,         \* the results of the successive calls of the escaper
  epc,             \* "span" before wrap_span_text, "text" after it, "idle"
  \* ---- build_nested_sections_from_regions, one loop iteration per step
  regs,            \* the ordered region list of the call
  page_index,      \* zero-based page number of the call
  ridx,            \* number of regions already consumed by the for loop
  counters,        \* counters[lvl + 1] is the code's counters[lvl]
  open_stack,      \* stack of opened section levels, top last
  base_opened,
  out,             \* the elements appended to out, in order
  fragment,        \* the returned string, once the call returned
  bpc,             \* "loop", "done" or "idle"
  \* ---- apply_html_entities on its own
  tText,           \* the text handed to apply_html_entities
  tOut,            \* the results of the successive calls
  tpc              \* "run" or "idle"

globalVars == <<AUTO_ENTITIES, NESTING_PREF>>
escVars == <<span, is_bold, is_italic, wrapped, escaped, epc>>
buildVars == <<regs, page_index, ridx, counters, open_stack, base_opened, out, fragment, bpc>>
entVars == <<tText, tOut, tpc>>

VARIABLES
  \* ---- PDFParaEditor (src/zone.py)
  zdoc,               \* self.doc: 0 for None, else the number of the open document
  current_page,       \* zero-based
  paragraphs_by_page, \* paragraphs_by_page[pno + 1] is the list of page pno
  selected_indices,   \* set of zero-based paragraph indices
  z_undo_stack,       \* self.undo_stack, top last
  last_right_click,   \* None, or [page, para_index, x, y, para]
  z_msg,              \* the message box the last handler showed, or "none"
  z_last              \* the last change of a paragraph list: what changed, and where

zoneVars == <<zdoc, current_page, paragraphs_by_page, selected_indices, z_undo_stack,
              last_right_click, z_msg, z_last>>

None == [none |-> TRUE]

\* The editor before it is constructed.
ZoneIdle ==
  /\ zdoc = 0 /\ current_page = 0 /\ paragraphs_by_page = <<>>
  /\ selected_indices = {} /\ z_undo_stack = <<>> /\ last_right_click = None
  /\ z_msg = "idle" /\ z_last = None

\* ---- the tagger window, class State and the widgets (src/all.py)
VARIABLES
  ed_doc,            \* state.doc: 0 for None, else the document opened
  st_page_index,     \* state.page_index
  regions,           \* state.regions: page index -> list of {id, rect, text, tag}
  selected_region,   \* state.selected_region: None or [page, idx]
  lb_sel,            \* listbox.curselection(): -1 for none, else the row
  undo_stack,        \* state.undo_stack
  redo_stack,        \* state.redo_stack
  payload,           \* the file export_json wrote last, None before
  ed_msg,            \* what the last handler reported
  ed_ops             \* number of snapshots pushed since the start

edVars == <<ed_doc, st_page_index, regions, selected_region, lb_sel, undo_stack,
            redo_stack, payload, ed_msg, ed_ops>>

\* The empty dict.
EmptyMap == [k \in {} |-> <<>>]

\* class State, after construction (src/all.py:29-40).
EdIdle ==
  /\ ed_doc = 0 /\ st_page_index = 0 /\ regions = EmptyMap
  /\ selected_region = None /\ lb_sel = -1
  /\ undo_stack = <<>> /\ redo_stack = <<>>
  /\ payload = None /\ ed_msg = "none" /\ ed_ops = 0

vars == <<globalVars, escVars, buildVars, entVars, zoneVars, edVars>>

-----------------------------------------------------------------------------
(* Characters and strings *)

\* The characters of a string literal, one string of length one each.
Chars(str) == IF str = "" THEN <<>> ELSE [i \in 1..Len(str) |-> SubSeq(str, i, i)]

Last(sq) == sq[Len(sq)]

MinOf(S) == CHOOSE x \in S : \A y \in S : x <= y

Min(a, b) == IF a <= b THEN a ELSE b

\* ASCII 32..95 and 97..126 in code-point order (a string cannot hold a backquote).
AsciiLow ==
  Chars(" !\"#$%&'()*+,-./0123456789:;<=>?@ABCDEFGHIJKLMNOPQRSTUVWXYZ[\\]^_")
AsciiHigh ==
  Chars("abcdefghijklmnopqrstuvwxyz{|}~")

UpperCase == Chars("ABCDEFGHIJKLMNOPQRSTUVWXYZ")
LowerCase == Chars("abcdefghijklmnopqrstuvwxyz")
DecDigits == Chars("0123456789")

Range(sq) == {sq[i] : i \in DOMAIN sq}

\* The character classes of the regular expressions (\d, [0-9a-fA-F],
\* [a-zA-Z], [a-zA-Z0-9], \s), over the characters of the model.
DigitChars == Range(DecDigits)
HexChars == Range(DecDigits) \cup Range(Chars("abcdefABCDEF"))
\* What \d matches in a str pattern: every Unicode decimal digit.  Beside 0-9
\* the model keeps two of them: ARABIC-INDIC DIGIT THREE, FULLWIDTH DIGIT ONE.
UnicodeDigitChars == DigitChars \cup {"U+0663", "U+FF11"}
AlphaChars == Range(UpperCase) \cup Range(LowerCase)
AlnumChars == AlphaChars \cup DigitChars
SpaceChars == {" ", "\t", "\n", "\r", "\f"}

\* str.lower() / re.I on one character.
LowerChar(c) ==
  IF c \in Range(UpperCase)
    THEN LowerCase[CHOOSE i \in DOMAIN UpperCase : UpperCase[i] = c]
    ELSE c

Lower(sq) == [i \in DOMAIN sq |-> LowerChar(sq[i])]

\* str.join over a list of strings.
RECURSIVE Join(_, _)
Join(sep, parts) ==
  IF parts = <<>> THEN <<>>
  ELSE IF Len(parts) = 1 THEN parts[1]
  ELSE parts[1] \o sep \o Join(sep, Tail(parts))

\* str(n) for n >= 0.
RECURSIVE IntToStr(_)
IntToStr(n) ==
  IF n < 10 THEN <<DecDigits[n + 1]>>
  ELSE IntToStr(n \div 10) \o <<DecDigits[(n % 10) + 1]>>

\* str.startswith at a 1-based position.
StartsWithAt(sq, p, lit) ==
  /\ p >= 1
  /\ p + Len(lit) - 1 <= Len(sq)
  /\ \A k \in 1..Len(lit) : sq[p + k - 1] = lit[k]

\* The same, ignoring case (re.I); lit is lower case.
StartsWithAtI(sq, p, lit) ==
  /\ p >= 1
  /\ p + Len(lit) - 1 <= Len(sq)
  /\ \A k \in 1..Len(lit) : LowerChar(sq[p + k - 1]) = lit[k]

\* str.replace(old, new): non-overlapping occurrences, left to right.
RECURSIVE StrReplaceFrom(_, _, _, _)
StrReplaceFrom(sq, p, old, new) ==
  LET hits == {h \in p..(Len(sq) - Len(old) + 1) : StartsWithAt(sq, h, old)} IN
    IF hits = {} THEN SubSeq(sq, p, Len(sq))
    ELSE LET h == MinOf(hits)
         IN  SubSeq(sq, p, h - 1) \o new \o StrReplaceFrom(sq, h + Len(old), old, new)

StrReplace(sq, old, new) ==
  IF \A p \in 1..Len(sq) : ~StartsWithAt(sq, p, old) THEN sq
  ELSE StrReplaceFrom(sq, 1, old, new)

\* First position >= p whose character is not in class (Len + 1 if none):
\* where a greedy \s*, \d+ or [..]+ that started at p stops.
SkipWhile(sq, p, class) ==
  LET stops == {e \in p..Len(sq) : sq[e] \notin class} IN
    IF stops # {} THEN MinOf(stops)
    ELSE IF p > Len(sq) THEN p
    ELSE Len(sq) + 1

-----------------------------------------------------------------------------
(* Bounds of the model *)

MaxPieces == 3        \* pieces in a span text
MaxEscapes == 2       \* successive calls of the escaper on one text
MaxTranscodes == 2    \* successive calls of apply_html_entities on one text
MaxMix == 2           \* characters in a mixed text for apply_html_entities
MaxRegs == 5          \* regions in a list (SpecBuild)
MaxTextRegs == 2      \* regions in a list (SpecBuildText)
MaxPage == 2          \* pages: page_index in 0..MaxPage-1

\* Cap on the snapshots pushed by push_undo in one run of the tagger window:
\* once it is reached only Undo and Redo are followed further.
MaxEdOps == 2

-----------------------------------------------------------------------------
(* Symbol entities: HTML_ENTITY_MAP and apply_html_entities (src/all.py)   *)

HTML_ENTITY_MAP ==
  <<
     [k |-> "U+00A9", v |-> "&copy;"], [k |-> "U+00AE", v |-> "&reg;"], [k |-> "U+2122", v |-> "&trade;"],
     [k |-> "U+2014", v |-> "&mdash;"], [k |-> "U+2013", v |-> "&ndash;"], [k |-> "U+00B7", v |-> "&middot;"],
     [k |-> "U+2026", v |-> "&hellip;"], [k |-> "U+201C", v |-> "&ldquo;"], [k |-> "U+201D", v |-> "&rdquo;"],
     [k |-> "U+2018", v |-> "&lsquo;"], [k |-> "U+2019", v |-> "&rsquo;"], [k |-> "U+2022", v |-> "&bull;"],
     [k |-> "U+00B0", v |-> "&deg;"], [k |-> "U+00A3", v |-> "&pound;"], [k |-> "U+20AC", v |-> "&euro;"],
     [k |-> "U+20B9", v |-> "&#8377;"], [k |-> "U+00B1", v |-> "&plusmn;"], [k |-> "U+00D7", v |-> "&times;"],
     [k |-> "U+00F7", v |-> "&divide;"], [k |-> "U+2264", v |-> "&le;"], [k |-> "U+2265", v |-> "&ge;"],
     [k |-> "U+2260", v |-> "&ne;"], [k |-> "U+2248", v |-> "&asymp;"], [k |-> "U+2261", v |-> "&equiv;"],
     [k |-> "U+223C", v |-> "&sim;"], [k |-> "U+2211", v |-> "&sum;"], [k |-> "U+220F", v |-> "&prod;"],
     [k |-> "U+222B", v |-> "&int;"], [k |-> "U+221A", v |-> "&radic;"], [k |-> "U+221E", v |-> "&infin;"],
     [k |-> "U+2202", v |-> "&part;"], [k |-> "U+2207", v |-> "&nabla;"], [k |-> "U+2208", v |-> "&in;"],
     [k |-> "U+2209", v |-> "&notin;"], [k |-> "U+2205", v |-> "&#8709;"], [k |-> "U+221D", v |-> "&prop;"],
     [k |-> "U+2234", v |-> "&there4;"], [k |-> "U+2235", v |-> "&because;"], [k |-> "U+21D2", v |-> "&rArr;"],
     [k |-> "U+21D4", v |-> "&hArr;"], [k |-> "U+2190", v |-> "&larr;"], [k |-> "U+2192", v |-> "&rarr;"],
     [k |-> "U+2194", v |-> "&harr;"], [k |-> "U+21A6", v |-> "&#8614;"], [k |-> "U+2245", v |-> "&cong;"],
     [k |-> "U+2217", v |-> "&lowast;"], [k |-> "U+03B1", v |-> "&alpha;"], [k |-> "U+03B2", v |-> "&beta;"],
     [k |-> "U+03B3", v |-> "&gamma;"], [k |-> "U+03B4", v |-> "&delta;"], [k |-> "U+03B5", v |-> "&epsilon;"],
     [k |-> "U+03B6", v |-> "&zeta;"], [k |-> "U+03B7", v |-> "&eta;"], [k |-> "U+03B8", v |-> "&theta;"],
     [k |-> "U+03B9", v |-> "&iota;"], [k |-> "U+03BA", v |-> "&kappa;"], [k |-> "U+03BB", v |-> "&lambda;"],
     [k |-> "U+03BC", v |-> "&mu;"], [k |-> "U+03BD", v |-> "&nu;"], [k |-> "U+03BE", v |-> "&xi;"],
     [k |-> "U+03BF", v |-> "&omicron;"], [k |-> "U+03C0", v |-> "&pi;"], [k |-> "U+03C1", v |-> "&rho;"],
     [k |-> "U+03C3", v |-> "&sigma;"], [k |-> "U+03C4", v |-> "&tau;"], [k |-> "U+03C5", v |-> "&upsilon;"],
     [k |-> "U+03C6", v |-> "&phi;"], [k |-> "U+03C7", v |-> "&chi;"], [k |-> "U+03C8", v |-> "&psi;"],
     [k |-> "U+03C9", v |-> "&omega;"], [k |-> "U+03C2", v |-> "&sigmaf;"], [k |-> "U+03D1", v |-> "&#976;"],
     [k |-> "U+0391", v |-> "&Alpha;"], [k |-> "U+0392", v |-> "&Beta;"], [k |-> "U+0393", v |-> "&Gamma;"],
     [k |-> "U+0394", v |-> "&Delta;"], [k |-> "U+0395", v |-> "&Epsilon;"], [k |-> "U+0396", v |-> "&Zeta;"],
     [k |-> "U+0397", v |-> "&Eta;"], [k |-> "U+0398", v |-> "&Theta;"], [k |-> "U+0399", v |-> "&Iota;"],
     [k |-> "U+039A", v |-> "&Kappa;"], [k |-> "U+039B", v |-> "&Lambda;"], [k |-> "U+039C", v |-> "&Mu;"],
     [k |-> "U+039D", v |-> "&Nu;"], [k |-> "U+039E", v |-> "&Xi;"], [k |-> "U+039F", v |-> "&Omicron;"],
     [k |-> "U+03A0", v |-> "&Pi;"], [k |-> "U+03A1", v |-> "&Rho;"], [k |-> "U+03A3", v |-> "&Sigma;"],
     [k |-> "U+03A4", v |-> "&Tau;"], [k |-> "U+03A5", v |-> "&Upsilon;"], [k |-> "U+03A6", v |-> "&Phi;"],
     [k |-> "U+03A7", v |-> "&Chi;"], [k |-> "U+03A8", v |-> "&Psi;"], [k |-> "U+03A9", v |-> "&Omega;"],
     [k |-> "U+00E1", v |-> "&aacute;"], [k |-> "U+00E0", v |-> "&agrave;"], [k |-> "U+00E2", v |-> "&acirc;"],
     [k |-> "U+00E4", v |-> "&auml;"], [k |-> "U+00E3", v |-> "&atilde;"], [k |-> "U+00E5", v |-> "&aring;"],
     [k |-> "U+00C1", v |-> "&Aacute;"], [k |-> "U+00C0", v |-> "&Agrave;"], [k |-> "U+00C2", v |-> "&Acirc;"],
     [k |-> "U+00C4", v |-> "&Auml;"], [k |-> "U+00C3", v |-> "&Atilde;"], [k |-> "U+00C5", v |-> "&Aring;"],
     [k |-> "U+00E9", v |-> "&eacute;"], [k |-> "U+00E8", v |-> "&egrave;"], [k |-> "U+00EA", v |-> "&ecirc;"],
     [k |-> "U+00EB", v |-> "&euml;"], [k |-> "U+00C9", v |-> "&Eacute;"], [k |-> "U+00C8", v |-> "&Egrave;"],
     [k |-> "U+00CA", v |-> "&Ecirc;"], [k |-> "U+00CB", v |-> "&Euml;"], [k |-> "U+00ED", v |-> "&iacute;"],
     [k |-> "U+00EC", v |-> "&igrave;"], [k |-> "U+00EE", v |-> "&icirc;"], [k |-> "U+00EF", v |-> "&iuml;"],
     [k |-> "U+00CD", v |-> "&Iacute;"], [k |-> "U+00CC", v |-> "&Igrave;"], [k |-> "U+00CE", v |-> "&Icirc;"],
     [k |-> "U+00CF", v |-> "&Iuml;"], [k |-> "U+00F3", v |-> "&oacute;"], [k |-> "U+00F2", v |-> "&ograve;"],
     [k |-> "U+00F4", v |-> "&ocirc;"], [k |-> "U+00F6", v |-> "&ouml;"], [k |-> "U+00F5", v |-> "&otilde;"],
     [k |-> "U+00D3", v |-> "&Oacute;"], [k |-> "U+00D2", v |-> "&Ograve;"], [k |-> "U+00D4", v |-> "&Ocirc;"],
     [k |-> "U+00D6", v |-> "&Ouml;"], [k |-> "U+00D5", v |-> "&Otilde;"], [k |-> "U+00FA", v |-> "&uacute;"],
     [k |-> "U+00F9", v |-> "&ugrave;"], [k |-> "U+00FB", v |-> "&ucirc;"], [k |-> "U+00FC", v |-> "&uuml;"],
     [k |-> "U+00DA", v |-> "&Uacute;"], [k |-> "U+00D9", v |-> "&Ugrave;"], [k |-> "U+00DB", v |-> "&Ucirc;"],
     [k |-> "U+00DC", v |-> "&Uuml;"], [k |-> "U+00F1", v |-> "&ntilde;"], [k |-> "U+00D1", v |-> "&Ntilde;"],
     [k |-> "U+00E7", v |-> "&ccedil;"], [k |-> "U+00C7", v |-> "&Ccedil;"], [k |-> "U+0153", v |-> "&oelig;"],
     [k |-> "U+0152", v |-> "&OElig;"], [k |-> "U+00E6", v |-> "&aelig;"], [k |-> "U+00C6", v |-> "&AElig;"],
     [k |-> "U+2039", v |-> "&lsaquo;"], [k |-> "U+203A", v |-> "&rsaquo;"], [k |-> "U+00AB", v |-> "&laquo;"],
     [k |-> "U+00BB", v |-> "&raquo;"]
  >>


\* Code points of the non-ASCII characters of the model: the keys of
\* HTML_ENTITY_MAP, U+00DF (sharp s) and U+4E2D (a CJK ideograph).
NonAsciiOrd ==
  <<
     [c |-> "U+00A9", cp |-> 169], [c |-> "U+00AE", cp |-> 174], [c |-> "U+2122", cp |-> 8482],
     [c |-> "U+2014", cp |-> 8212], [c |-> "U+2013", cp |-> 8211], [c |-> "U+00B7", cp |-> 183],
     [c |-> "U+2026", cp |-> 8230], [c |-> "U+201C", cp |-> 8220], [c |-> "U+201D", cp |-> 8221],
     [c |-> "U+2018", cp |-> 8216], [c |-> "U+2019", cp |-> 8217], [c |-> "U+2022", cp |-> 8226],
     [c |-> "U+00B0", cp |-> 176], [c |-> "U+00A3", cp |-> 163], [c |-> "U+20AC", cp |-> 8364],
     [c |-> "U+20B9", cp |-> 8377], [c |-> "U+00B1", cp |-> 177], [c |-> "U+00D7", cp |-> 215],
     [c |-> "U+00F7", cp |-> 247], [c |-> "U+2264", cp |-> 8804], [c |-> "U+2265", cp |-> 8805],
     [c |-> "U+2260", cp |-> 8800], [c |-> "U+2248", cp |-> 8776], [c |-> "U+2261", cp |-> 8801],
     [c |-> "U+223C", cp |-> 8764], [c |-> "U+2211", cp |-> 8721], [c |-> "U+220F", cp |-> 8719],
     [c |-> "U+222B", cp |-> 8747], [c |-> "U+221A", cp |-> 8730], [c |-> "U+221E", cp |-> 8734],
     [c |-> "U+2202", cp |-> 8706], [c |-> "U+2207", cp |-> 8711], [c |-> "U+2208", cp |-> 8712],
     [c |-> "U+2209", cp |-> 8713], [c |-> "U+2205", cp |-> 8709], [c |-> "U+221D", cp |-> 8733],
     [c |-> "U+2234", cp |-> 8756], [c |-> "U+2235", cp |-> 8757], [c |-> "U+21D2", cp |-> 8658],
     [c |-> "U+21D4", cp |-> 8660], [c |-> "U+2190", cp |-> 8592], [c |-> "U+2192", cp |-> 8594],
     [c |-> "U+2194", cp |-> 8596], [c |-> "U+21A6", cp |-> 8614], [c |-> "U+2245", cp |-> 8773],
     [c |-> "U+2217", cp |-> 8727], [c |-> "U+03B1", cp |-> 945], [c |-> "U+03B2", cp |-> 946],
     [c |-> "U+03B3", cp |-> 947], [c |-> "U+03B4", cp |-> 948], [c |-> "U+03B5", cp |-> 949],
     [c |-> "U+03B6", cp |-> 950], [c |-> "U+03B7", cp |-> 951], [c |-> "U+03B8", cp |-> 952],
     [c |-> "U+03B9", cp |-> 953], [c |-> "U+03BA", cp |-> 954], [c |-> "U+03BB", cp |-> 955],
     [c |-> "U+03BC", cp |-> 956], [c |-> "U+03BD", cp |-> 957], [c |-> "U+03BE", cp |-> 958],
     [c |-> "U+03BF", cp |-> 959], [c |-> "U+03C0", cp |-> 960], [c |-> "U+03C1", cp |-> 961],
     [c |-> "U+03C3", cp |-> 963], [c |-> "U+03C4", cp |-> 964], [c |-> "U+03C5", cp |-> 965],
     [c |-> "U+03C6", cp |-> 966], [c |-> "U+03C7", cp |-> 967], [c |-> "U+03C8", cp |-> 968],
     [c |-> "U+03C9", cp |-> 969], [c |-> "U+03C2", cp |-> 962], [c |-> "U+03D1", cp |-> 977],
     [c |-> "U+0391", cp |-> 913], [c |-> "U+0392", cp |-> 914], [c |-> "U+0393", cp |-> 915],
     [c |-> "U+0394", cp |-> 916], [c |-> "U+0395", cp |-> 917], [c |-> "U+0396", cp |-> 918],
     [c |-> "U+0397", cp |-> 919], [c |-> "U+0398", cp |-> 920], [c |-> "U+0399", cp |-> 921],
     [c |-> "U+039A", cp |-> 922], [c |-> "U+039B", cp |-> 923], [c |-> "U+039C", cp |-> 924],
     [c |-> "U+039D", cp |-> 925], [c |-> "U+039E", cp |-> 926], [c |-> "U+039F", cp |-> 927],
     [c |-> "U+03A0", cp |-> 928], [c |-> "U+03A1", cp |-> 929], [c |-> "U+03A3", cp |-> 931],
     [c |-> "U+03A4", cp |-> 932], [c |-> "U+03A5", cp |-> 933], [c |-> "U+03A6", cp |-> 934],
     [c |-> "U+03A7", cp |-> 935], [c |-> "U+03A8", cp |-> 936], [c |-> "U+03A9", cp |-> 937],
     [c |-> "U+00E1", cp |-> 225], [c |-> "U+00E0", cp |-> 224], [c |-> "U+00E2", cp |-> 226],
     [c |-> "U+00E4", cp |-> 228], [c |-> "U+00E3", cp |-> 227], [c |-> "U+00E5", cp |-> 229],
     [c |-> "U+00C1", cp |-> 193], [c |-> "U+00C0", cp |-> 192], [c |-> "U+00C2", cp |-> 194],
     [c |-> "U+00C4", cp |-> 196], [c |-> "U+00C3", cp |-> 195], [c |-> "U+00C5", cp |-> 197],
     [c |-> "U+00E9", cp |-> 233], [c |-> "U+00E8", cp |-> 232], [c |-> "U+00EA", cp |-> 234],
     [c |-> "U+00EB", cp |-> 235], [c |-> "U+00C9", cp |-> 201], [c |-> "U+00C8", cp |-> 200],
     [c |-> "U+00CA", cp |-> 202], [c |-> "U+00CB", cp |-> 203], [c |-> "U+00ED", cp |-> 237],
     [c |-> "U+00EC", cp |-> 236], [c |-> "U+00EE", cp |-> 238], [c |-> "U+00EF", cp |-> 239],
     [c |-> "U+00CD", cp |-> 205], [c |-> "U+00CC", cp |-> 204], [c |-> "U+00CE", cp |-> 206],
     [c |-> "U+00CF", cp |-> 207], [c |-> "U+00F3", cp |-> 243], [c |-> "U+00F2", cp |-> 242],
     [c |-> "U+00F4", cp |-> 244], [c |-> "U+00F6", cp |-> 246], [c |-> "U+00F5", cp |-> 245],
     [c |-> "U+00D3", cp |-> 211], [c |-> "U+00D2", cp |-> 210], [c |-> "U+00D4", cp |-> 212],
     [c |-> "U+00D6", cp |-> 214], [c |-> "U+00D5", cp |-> 213], [c |-> "U+00FA", cp |-> 250],
     [c |-> "U+00F9", cp |-> 249], [c |-> "U+00FB", cp |-> 251], [c |-> "U+00FC", cp |-> 252],
     [c |-> "U+00DA", cp |-> 218], [c |-> "U+00D9", cp |-> 217], [c |-> "U+00DB", cp |-> 219],
     [c |-> "U+00DC", cp |-> 220], [c |-> "U+00F1", cp |-> 241], [c |-> "U+00D1", cp |-> 209],
     [c |-> "U+00E7", cp |-> 231], [c |-> "U+00C7", cp |-> 199], [c |-> "U+0153", cp |-> 339],
     [c |-> "U+0152", cp |-> 338], [c |-> "U+00E6", cp |-> 230], [c |-> "U+00C6", cp |-> 198],
     [c |-> "U+2039", cp |-> 8249], [c |-> "U+203A", cp |-> 8250], [c |-> "U+00AB", cp |-> 171],
     [c |-> "U+00BB", cp |-> 187], [c |-> "U+00DF", cp |-> 223], [c |-> "U+4E2D", cp |-> 20013]
  >>


\* ord(c)
Ord(c) ==
  IF c = "\n" THEN 10
  ELSE IF c = "\t" THEN 9
  ELSE IF c \in Range(AsciiLow)
    THEN 31 + (CHOOSE i \in DOMAIN AsciiLow : AsciiLow[i] = c)
  ELSE IF c \in Range(AsciiHigh)
    THEN 96 + (CHOOSE i \in DOMAIN AsciiHigh : AsciiHigh[i] = c)
    ELSE NonAsciiOrd[CHOOSE i \in DOMAIN NonAsciiOrd : NonAsciiOrd[i].c = c].cp

\* for k, v in HTML_ENTITY_MAP.items(): text = text.replace(k, v), for the
\* entries lo..hi in the order of the table: the first half of them, and on
\* the text that gives (evaluated before it is passed on), the second half.
RECURSIVE ReplaceEntries(_, _, _)
ReplaceEntries(text, lo, hi) ==
  IF lo = hi
    THEN StrReplace(text, <<HTML_ENTITY_MAP[lo].k>>, Chars(HTML_ENTITY_MAP[lo].v))
    ELSE LET half == ReplaceEntries(text, lo, (lo + hi) \div 2)
         IN  IF Len(half) = 0 THEN half
             ELSE ReplaceEntries(half, ((lo + hi) \div 2) + 1, hi)

EntityKeys == {HTML_ENTITY_MAP[i].k : i \in DOMAIN HTML_ENTITY_MAP}

\* Variant: the symbol table is not applied.
apply_html_entities_off(text) == text

\* (When no key occurs in text, every replace leaves it as it is.)
apply_html_entities(text) ==
  IF text = <<>> THEN text
  ELSE IF Range(text) \cap EntityKeys = {} THEN text
  ELSE ReplaceEntries(text, 1, Len(HTML_ENTITY_MAP))

-----------------------------------------------------------------------------
(* convert_chars_to_entities (src/entity.py)                               *)

\* html.entities.codepoint2name, for the non-ASCII characters of the model.
codepoint2name ==
  <<
     [cp |-> 169, name |-> "copy"], [cp |-> 174, name |-> "reg"], [cp |-> 8482, name |-> "trade"],
     [cp |-> 8212, name |-> "mdash"], [cp |-> 8211, name |-> "ndash"], [cp |-> 183, name |-> "middot"],
     [cp |-> 8230, name |-> "hellip"], [cp |-> 8220, name |-> "ldquo"], [cp |-> 8221, name |-> "rdquo"],
     [cp |-> 8216, name |-> "lsquo"], [cp |-> 8217, name |-> "rsquo"], [cp |-> 8226, name |-> "bull"],
     [cp |-> 176, name |-> "deg"], [cp |-> 163, name |-> "pound"], [cp |-> 8364, name |-> "euro"],
     [cp |-> 177, name |-> "plusmn"], [cp |-> 215, name |-> "times"], [cp |-> 247, name |-> "divide"],
     [cp |-> 8804, name |-> "le"], [cp |-> 8805, name |-> "ge"], [cp |-> 8800, name |-> "ne"],
     [cp |-> 8776, name |-> "asymp"], [cp |-> 8801, name |-> "equiv"], [cp |-> 8764, name |-> "sim"],
     [cp |-> 8721, name |-> "sum"], [cp |-> 8719, name |-> "prod"], [cp |-> 8747, name |-> "int"],
     [cp |-> 8730, name |-> "radic"], [cp |-> 8734, name |-> "infin"], [cp |-> 8706, name |-> "part"],
     [cp |-> 8711, name |-> "nabla"], [cp |-> 8712, name |-> "isin"], [cp |-> 8713, name |-> "notin"],
     [cp |-> 8709, name |-> "empty"], [cp |-> 8733, name |-> "prop"], [cp |-> 8756, name |-> "there4"],
     [cp |-> 8658, name |-> "rArr"], [cp |-> 8660, name |-> "hArr"], [cp |-> 8592, name |-> "larr"],
     [cp |-> 8594, name |-> "rarr"], [cp |-> 8596, name |-> "harr"], [cp |-> 8773, name |-> "cong"],
     [cp |-> 8727, name |-> "lowast"], [cp |-> 945, name |-> "alpha"], [cp |-> 946, name |-> "beta"],
     [cp |-> 947, name |-> "gamma"], [cp |-> 948, name |-> "delta"], [cp |-> 949, name |-> "epsilon"],
     [cp |-> 950, name |-> "zeta"], [cp |-> 951, name |-> "eta"], [cp |-> 952, name |-> "theta"],
     [cp |-> 953, name |-> "iota"], [cp |-> 954, name |-> "kappa"], [cp |-> 955, name |-> "lambda"],
     [cp |-> 956, name |-> "mu"], [cp |-> 957, name |-> "nu"], [cp |-> 958, name |-> "xi"],
     [cp |-> 959, name |-> "omicron"], [cp |-> 960, name |-> "pi"], [cp |-> 961, name |-> "rho"],
     [cp |-> 963, name |-> "sigma"], [cp |-> 964, name |-> "tau"], [cp |-> 965, name |-> "upsilon"],
     [cp |-> 966, name |-> "phi"], [cp |-> 967, name |-> "chi"], [cp |-> 968, name |-> "psi"],
     [cp |-> 969, name |-> "omega"], [cp |-> 962, name |-> "sigmaf"], [cp |-> 977, name |-> "thetasym"],
     [cp |-> 913, name |-> "Alpha"], [cp |-> 914, name |-> "Beta"], [cp |-> 915, name |-> "Gamma"],
     [cp |-> 916, name |-> "Delta"], [cp |-> 917, name |-> "Epsilon"], [cp |-> 918, name |-> "Zeta"],
     [cp |-> 919, name |-> "Eta"], [cp |-> 920, name |-> "Theta"], [cp |-> 921, name |-> "Iota"],
     [cp |-> 922, name |-> "Kappa"], [cp |-> 923, name |-> "Lambda"], [cp |-> 924, name |-> "Mu"],
     [cp |-> 925, name |-> "Nu"], [cp |-> 926, name |-> "Xi"], [cp |-> 927, name |-> "Omicron"],
     [cp |-> 928, name |-> "Pi"], [cp |-> 929, name |-> "Rho"], [cp |-> 931, name |-> "Sigma"],
     [cp |-> 932, name |-> "Tau"], [cp |-> 933, name |-> "Upsilon"], [cp |-> 934, name |-> "Phi"],
     [cp |-> 935, name |-> "Chi"], [cp |-> 936, name |-> "Psi"], [cp |-> 937, name |-> "Omega"],
     [cp |-> 225, name |-> "aacute"], [cp |-> 224, name |-> "agrave"], [cp |-> 226, name |-> "acirc"],
     [cp |-> 228, name |-> "auml"], [cp |-> 227, name |-> "atilde"], [cp |-> 229, name |-> "aring"],
     [cp |-> 193, name |-> "Aacute"], [cp |-> 192, name |-> "Agrave"], [cp |-> 194, name |-> "Acirc"],
     [cp |-> 196, name |-> "Auml"], [cp |-> 195, name |-> "Atilde"], [cp |-> 197, name |-> "Aring"],
     [cp |-> 233, name |-> "eacute"], [cp |-> 232, name |-> "egrave"], [cp |-> 234, name |-> "ecirc"],
     [cp |-> 235, name |-> "euml"], [cp |-> 201, name |-> "Eacute"], [cp |-> 200, name |-> "Egrave"],
     [cp |-> 202, name |-> "Ecirc"], [cp |-> 203, name |-> "Euml"], [cp |-> 237, name |-> "iacute"],
     [cp |-> 236, name |-> "igrave"], [cp |-> 238, name |-> "icirc"], [cp |-> 239, name |-> "iuml"],
     [cp |-> 205, name |-> "Iacute"], [cp |-> 204, name |-> "Igrave"], [cp |-> 206, name |-> "Icirc"],
     [cp |-> 207, name |-> "Iuml"], [cp |-> 243, name |-> "oacute"], [cp |-> 242, name |-> "ograve"],
     [cp |-> 244, name |-> "ocirc"], [cp |-> 246, name |-> "ouml"], [cp |-> 245, name |-> "otilde"],
     [cp |-> 211, name |-> "Oacute"], [cp |-> 210, name |-> "Ograve"], [cp |-> 212, name |-> "Ocirc"],
     [cp |-> 214, name |-> "Ouml"], [cp |-> 213, name |-> "Otilde"], [cp |-> 250, name |-> "uacute"],
     [cp |-> 249, name |-> "ugrave"], [cp |-> 251, name |-> "ucirc"], [cp |-> 252, name |-> "uuml"],
     [cp |-> 218, name |-> "Uacute"], [cp |-> 217, name |-> "Ugrave"], [cp |-> 219, name |-> "Ucirc"],
     [cp |-> 220, name |-> "Uuml"], [cp |-> 241, name |-> "ntilde"], [cp |-> 209, name |-> "Ntilde"],
     [cp |-> 231, name |-> "ccedil"], [cp |-> 199, name |-> "Ccedil"], [cp |-> 339, name |-> "oelig"],
     [cp |-> 338, name |-> "OElig"], [cp |-> 230, name |-> "aelig"], [cp |-> 198, name |-> "AElig"],
     [cp |-> 8249, name |-> "lsaquo"], [cp |-> 8250, name |-> "rsaquo"], [cp |-> 171, name |-> "laquo"],
     [cp |-> 187, name |-> "raquo"], [cp |-> 223, name |-> "szlig"]
  >>


HasName(cp) == \E i \in DOMAIN codepoint2name : codepoint2name[i].cp = cp

NameOf(cp) == codepoint2name[CHOOSE i \in DOMAIN codepoint2name : codepoint2name[i].cp = cp].name

EntityForChar(ch) ==
  LET cp == Ord(ch) IN
    IF cp < 128 THEN <<ch>>
    ELSE IF HasName(cp) THEN <<"&">> \o Chars(NameOf(cp)) \o <<";">>
    ELSE Chars("&#") \o IntToStr(cp) \o <<";">>

\* The loop over the characters lo..hi of text.
RECURSIVE ConvertRange(_, _, _)
ConvertRange(text, lo, hi) ==
  IF lo > hi THEN <<>>
  ELSE IF lo = hi THEN EntityForChar(text[lo])
  ELSE ConvertRange(text, lo, (lo + hi) \div 2)
         \o ConvertRange(text, ((lo + hi) \div 2) + 1, hi)

convert_chars_to_entities(text) == ConvertRange(text, 1, Len(text))

-----------------------------------------------------------------------------
(* Span styling and HTML escaping (src/all.py)                             *)

wrap_span_text(txt, bold, italic) ==
  IF bold /\ italic THEN
    IF NESTING_PREF = "b_outside_i"
      THEN Chars("<b><i>") \o txt \o Chars("</i></b>")
      ELSE Chars("<i><b>") \o txt \o Chars("</b></i>")
  ELSE IF bold THEN Chars("<b>") \o txt \o Chars("</b>")
  ELSE IF italic THEN Chars("<i>") \o txt \o Chars("</i>")
  ELSE txt

ph_b_open == Chars("@@B_OPEN@@")
ph_b_close == Chars("@@B_CLOSE@@")
ph_i_open == Chars("@@I_OPEN@@")
ph_i_close == Chars("@@I_CLOSE@@")

\* inner.replace('<', '&lt;').replace('>', '&gt;')
EscapeAngles(sq) == StrReplace(StrReplace(sq, <<"<">>, Chars("&lt;")), <<">">>, Chars("&gt;"))

OpenTag(t) == <<"<", t, ">">>
CloseTag(t) == <<"<", "/", t, ">">>

\* Where the lazy group (.*?) of <o>\s*<n>(.*?)</n>\s*</o> ends: the first
\* position e >= p such that </n>\s*</o> matches at e; 0 if there is none.
NestedInnerEnd(sq, p, o, n) ==
  LET ends == {e \in p..Len(sq) :
                 /\ StartsWithAtI(sq, e, CloseTag(n))
                 /\ StartsWithAtI(sq, SkipWhile(sq, e + 4, SpaceChars), CloseTag(o))}
  IN  IF ends = {} THEN 0 ELSE MinOf(ends)

\* Where the group of <o>\s*<n>(.*?)</n>\s*</o> (re.S | re.I) starts when
\* <o>\s*<n> matches at p; 0 when it does not.
NestedGroupStart(sq, p, o, n) ==
  IF StartsWithAtI(sq, p, OpenTag(o))
       /\ StartsWithAtI(sq, SkipWhile(sq, p + 3, SpaceChars), OpenTag(n))
    THEN SkipWhile(sq, p + 3, SpaceChars) + 3
    ELSE 0

\* protect_nested(m): seq is m.group(0), inner is m.group(1).
protect_nested(seq, inner) ==
  IF StartsWithAt(Lower(seq), 1, Chars("<b>"))
    THEN ph_b_open \o ph_i_open \o EscapeAngles(inner) \o ph_i_close \o ph_b_close
    ELSE ph_i_open \o ph_b_open \o EscapeAngles(inner) \o ph_b_close \o ph_i_close

\* The pattern <o>\s*<n>(.*?)</n>\s*</o> matches at m.
NestedMatchAt(sq, m, o, n) ==
  /\ NestedGroupStart(sq, m, o, n) > 0
  /\ NestedInnerEnd(sq, NestedGroupStart(sq, m, o, n), o, n) > 0

\* re.sub(r'<o>\s*<n>(.*?)</n>\s*</o>', protect_nested, sq, flags=re.S|re.I),
\* from p on: the text up to the leftmost match, its replacement, and the
\* same from the end of the match on.
RECURSIVE SubNested(_, _, _, _)
SubNested(sq, p, o, n) ==
  LET starts == {m \in p..Len(sq) : NestedMatchAt(sq, m, o, n)} IN
    IF starts = {} THEN SubSeq(sq, p, Len(sq))
    ELSE LET m == MinOf(starts)
             from == NestedGroupStart(sq, m, o, n)
             e == NestedInnerEnd(sq, from, o, n)
             stop == SkipWhile(sq, e + 4, SpaceChars) + 4
         IN  SubSeq(sq, p, m - 1)
               \o protect_nested(SubSeq(sq, m, stop - 1), SubSeq(sq, from, e - 1))
               \o SubNested(sq, stop, o, n)

\* Where (.*?) of <t>(.*?)</t> ends: the first </t> at or after p; 0 if none.
SingleInnerEnd(sq, p, t) ==
  LET ends == {e \in p..Len(sq) : StartsWithAtI(sq, e, CloseTag(t))}
  IN  IF ends = {} THEN 0 ELSE MinOf(ends)

\* protect_b / protect_i
protect_single(t, inner) ==
  IF t = "b" THEN ph_b_open \o EscapeAngles(inner) \o ph_b_close
             ELSE ph_i_open \o EscapeAngles(inner) \o ph_i_close

\* re.sub(r'<t>(.*?)</t>', protect_t, sq, flags=re.S|re.I), from p on.
RECURSIVE SubSingle(_, _, _)
SubSingle(sq, p, t) ==
  LET starts == {m \in p..Len(sq) :
                   StartsWithAtI(sq, m, OpenTag(t)) /\ SingleInnerEnd(sq, m + 3, t) > 0}
  IN
    IF starts = {} THEN SubSeq(sq, p, Len(sq))
    ELSE LET m == MinOf(starts)
             e == SingleInnerEnd(sq, m + 3, t)
         IN  SubSeq(sq, p, m - 1)
               \o protect_single(t, SubSeq(sq, m + 3, e - 1))
               \o SubSingle(sq, e + 4, t)

\* Width of the lookahead of amp_repl: text_prot[idx+1:idx+1+30].
AmpWindow == 30

\* re.match(r'(#\d+;|#x[0-9a-fA-F]+;|[a-zA-Z][a-zA-Z0-9]+;)', following)
EntityMatch(following) ==
  LET n == Len(following)
      d == SkipWhile(following, 2, UnicodeDigitChars)
      h == SkipWhile(following, 3, HexChars)
      a == SkipWhile(following, 2, AlnumChars)
  IN  \/ /\ n >= 1 /\ following[1] = "#"
         /\ d > 2 /\ d <= n /\ following[d] = ";"
      \/ /\ n >= 2 /\ following[1] = "#" /\ following[2] = "x"
         /\ h > 3 /\ h <= n /\ following[h] = ";"
      \/ /\ n >= 1 /\ following[1] \in AlphaChars
         /\ a > 2 /\ a <= n /\ following[a] = ";"

\* Variant: an ampersand is never escaped.
amp_repl_keep(text_prot, idx) == <<"&">>

amp_repl(text_prot, idx) ==
  IF EntityMatch(SubSeq(text_prot, idx + 1, Min(idx + AmpWindow, Len(text_prot))))
    THEN <<"&">>
    ELSE Chars("&amp;")

\* re.sub(r'&', lambda m: amp_repl(m), text_prot), on the positions lo..hi;
\* amp_repl reads text_prot as it was before the substitution.
RECURSIVE SubAmp(_, _, _)
SubAmp(text_prot, lo, hi) ==
  IF lo > hi THEN <<>>
  ELSE IF lo = hi
    THEN (IF text_prot[lo] = "&" THEN amp_repl(text_prot, lo) ELSE <<text_prot[lo]>>)
  ELSE SubAmp(text_prot, lo, (lo + hi) \div 2)
         \o SubAmp(text_prot, ((lo + hi) \div 2) + 1, hi)

RestorePlaceholders(text_prot) ==
  StrReplace(StrReplace(StrReplace(StrReplace(text_prot,
    ph_b_open, Chars("<b>")), ph_b_close, Chars("</b>")),
    ph_i_open, Chars("<i>")), ph_i_close, Chars("</i>"))

escape_html_keep_bi_and_entities(text) ==
  IF text = <<>> THEN <<>>
  ELSE LET t1 == SubNested(text, 1, "b", "i")
           t2 == SubNested(t1, 1, "i", "b")
           t3 == SubSingle(t2, 1, "b")
           t4 == SubSingle(t3, 1, "i")
           t5 == EscapeAngles(t4)
           t6 == SubAmp(t5, 1, Len(t5))
       IN  RestorePlaceholders(t6)

-----------------------------------------------------------------------------
(* build_nested_sections_from_regions (src/all.py)                         *)

generate_region_id(page_idx, idx) ==
  <<"p">> \o IntToStr(page_idx + 1) \o Chars("_r") \o IntToStr(idx + 1)

level_map ==
  (Chars("h1") :> 1) @@ (Chars("h2") :> 2) @@ (Chars("h3") :> 3) @@ (Chars("h4") :> 4)

\* The elements appended to out.  lvl is the level pushed on open_stack
\* together with an opening tag.
SectionOpen(nums, lvl) ==
  [kind |-> "open", nums |-> nums, lvl |-> lvl, tag |-> <<>>, id |-> <<>>, text |-> <<>>]
SectionClose ==
  [kind |-> "close", nums |-> <<>>, lvl |-> 0, tag |-> <<>>, id |-> <<>>, text |-> <<>>]
Leaf(tag, id, text_esc) ==
  [kind |-> "leaf", nums |-> <<>>, lvl |-> 0, tag |-> tag, id |-> id, text |-> text_esc]

\* The string an element stands for; sec_id = ".".join(nums).
Render(el) ==
  IF el.kind = "open"
    THEN Chars("<section id=\"")
           \o Join(<<".">>, [i \in DOMAIN el.nums |-> IntToStr(el.nums[i])])
           \o Chars("\">")
  ELSE IF el.kind = "close" THEN Chars("</section>")
  ELSE <<"<">> \o el.tag \o Chars(" id=\"") \o el.id \o Chars("\">")
         \o el.text \o Chars("</") \o el.tag \o <<">">>

\* Variant: the counters of the deeper levels are not reset.
NextCountersKeepLower(cs, lvl) ==
  [i \in 1..5 |-> IF i - 1 = lvl THEN cs[i] + 1 ELSE cs[i]]

\* Variant: the reset loop starts at lvl, for lower in range(lvl, 5).
NextCountersResetOwn(cs, lvl) ==
  [i \in 1..5 |-> IF i - 1 >= lvl THEN 0 ELSE cs[i]]

\* counters[lvl] += 1; for lower in range(lvl+1, 5): counters[lower] = 0
NextCounters(cs, lvl) ==
  [i \in 1..5 |-> IF i - 1 = lvl THEN cs[i] + 1
                  ELSE IF i - 1 > lvl THEN 0
                  ELSE cs[i]]

\* Variant: while open_stack: every open section is closed, the root included.
RECURSIVE close_to_level_root(_, _)
close_to_level_root(stack, target_level) ==
  IF stack # <<>>
    THEN close_to_level_root(SubSeq(stack, 1, Len(stack) - 1), target_level)
    ELSE stack

\* Variant: while open_stack and open_stack[-1] > target_level.
RECURSIVE close_to_level_strict(_, _)
close_to_level_strict(stack, target_level) ==
  IF stack # <<>> /\ Last(stack) > target_level
    THEN close_to_level_strict(SubSeq(stack, 1, Len(stack) - 1), target_level)
    ELSE stack

\* Variant: every open heading section is closed, whatever the target level.
RECURSIVE close_to_level_all(_, _)
close_to_level_all(stack, target_level) ==
  IF stack # <<>> /\ Last(stack) >= 1
    THEN close_to_level_all(SubSeq(stack, 1, Len(stack) - 1), target_level)
    ELSE stack

\* close_to_level(target_level): the stack it leaves.
RECURSIVE close_to_level(_, _)
close_to_level(stack, target_level) ==
  IF stack # <<>> /\ Last(stack) >= target_level
    THEN close_to_level(SubSeq(stack, 1, Len(stack) - 1), target_level)
    ELSE stack

\* Variant: the counters of range(1, lvl) only.
SectionNumsShort(pidx, cs, lvl) ==
  <<pidx + 1>> \o [i \in 1..(lvl - 1) |-> cs[i + 1]]

\* nums = [str(page_index + 1)] + [str(counters[i]) for i in range(1, lvl+1)]
SectionNums(pidx, cs, lvl) ==
  <<pidx + 1>> \o [i \in 1..lvl |-> cs[i + 1]]

Closes(n) == IF n = 0 THEN <<>> ELSE [i \in 1..n |-> SectionClose]

\* The text of a region as the loop body computes it.
RegionTextEsc(r) ==
  LET text == IF r.text # <<>> THEN r.text ELSE r.pdf_text
      text_ent == IF AUTO_ENTITIES THEN apply_html_entities(text) ELSE text
  IN  escape_html_keep_bi_and_entities(text_ent)

RegionTag(r) == Lower(IF r.tag = <<>> THEN Chars("p") ELSE r.tag)

\* One iteration of "for r in regs".
BuildStep ==
  /\ bpc = "loop"
  /\ ridx < Len(regs)
  /\ LET r == regs[ridx + 1]
         tag == RegionTag(r)
         text_esc == RegionTextEsc(r)
         stack0 == IF base_opened THEN open_stack ELSE Append(open_stack, 0)
         out0 == IF base_opened THEN out
                 ELSE Append(out, SectionOpen(<<page_index + 1>>, 0))
     IN  IF tag \in DOMAIN level_map
           THEN LET lvl == level_map[tag]
                    cs == NextCounters(counters, lvl)
                    stack1 == close_to_level(stack0, lvl)
                IN  /\ counters' = cs
                    /\ open_stack' = Append(stack1, lvl)
                    /\ out' = out0 \o Closes(Len(stack0) - Len(stack1))
                                \o <<SectionOpen(SectionNums(page_index, cs, lvl), lvl),
                                     Leaf(tag, r.id, text_esc)>>
           ELSE /\ counters' = counters
                /\ open_stack' = stack0
                /\ out' = Append(out0, Leaf(tag, r.id, text_esc))
  /\ base_opened' = TRUE
  /\ ridx' = ridx + 1
  /\ UNCHANGED <<regs, page_index, fragment, bpc>>
  /\ UNCHANGED <<globalVars, escVars, entVars>>
  /\ UNCHANGED <<zoneVars, edVars>>

\* After the loop: close all opened sections and return "\n".join(out).
BuildReturn ==
  /\ bpc = "loop"
  /\ ridx = Len(regs)
  /\ out' = out \o Closes(Len(open_stack))
  /\ open_stack' = <<>>
  /\ fragment' = Join(<<"\n">>, [i \in DOMAIN out' |-> Render(out'[i])])
  /\ bpc' = "done"
  /\ UNCHANGED <<regs, page_index, ridx, counters, base_opened>>
  /\ UNCHANGED <<globalVars, escVars, entVars>>
  /\ UNCHANGED <<zoneVars, edVars>>

\* toggle_auto_entities, between two calls of the builder.
toggle_auto_entities ==
  /\ bpc = "idle" \/ (bpc = "loop" /\ ridx = 0)
  /\ ed_ops < MaxEdOps
  /\ AUTO_ENTITIES' = ~AUTO_ENTITIES
  \* render_current_page: listbox.delete(0, tk.END)
  /\ lb_sel' = -1
  /\ UNCHANGED <<ed_doc, st_page_index, regions, selected_region, undo_stack,
                 redo_stack, payload, ed_msg, ed_ops>>
  /\ UNCHANGED <<NESTING_PREF, escVars, buildVars, entVars>>
  /\ UNCHANGED zoneVars

-----------------------------------------------------------------------------
(* The escaper pipeline: wrap_span_text, then the escaper, once or more    *)

\* toggle_nesting
toggle_nesting ==
  /\ epc = "span"
  /\ NESTING_PREF' = IF NESTING_PREF = "b_outside_i" THEN "i_outside_b" ELSE "b_outside_i"
  /\ UNCHANGED <<AUTO_ENTITIES, escVars, buildVars, entVars>>
  /\ UNCHANGED <<zoneVars, edVars>>

\* extract_text_from_rect: wrapped = wrap_span_text(s, is_bold, is_italic)
WrapSpan ==
  /\ epc = "span"
  /\ \E b \in BOOLEAN, i \in BOOLEAN :
       /\ is_bold' = b
       /\ is_italic' = i
       /\ wrapped' = wrap_span_text(span, b, i)
  /\ epc' = "text"
  /\ UNCHANGED <<span, escaped>>
  /\ UNCHANGED <<globalVars, buildVars, entVars>>
  /\ UNCHANGED <<zoneVars, edVars>>

\* text_esc = escape_html_keep_bi_and_entities(text), on the styled text and
\* then on the escaper's own output.
Escape ==
  /\ epc = "text"
  /\ Len(escaped) < MaxEscapes
  /\ escaped' = Append(escaped, escape_html_keep_bi_and_entities(
                         IF escaped = <<>> THEN wrapped ELSE Last(escaped)))
  /\ UNCHANGED <<span, is_bold, is_italic, wrapped, epc>>
  /\ UNCHANGED <<globalVars, buildVars, entVars>>
  /\ UNCHANGED <<zoneVars, edVars>>

\* apply_html_entities on a text, and then on its own output.
Transcode ==
  /\ tpc = "run"
  /\ Len(tOut) < MaxTranscodes
  /\ tOut' = Append(tOut, apply_html_entities(IF tOut = <<>> THEN tText ELSE Last(tOut)))
  /\ UNCHANGED <<tText, tpc>>
  /\ UNCHANGED <<globalVars, escVars, buildVars>>
  /\ UNCHANGED <<zoneVars, edVars>>

-----------------------------------------------------------------------------
(* Inputs and specifications *)

RECURSIVE Flatten(_)
Flatten(parts) == IF parts = <<>> THEN <<>> ELSE Head(parts) \o Flatten(Tail(parts))

SeqsUpTo(S, n) == UNION {[1..k -> S] : k \in 0..n}

\* Span texts: up to MaxPieces pieces, concatenated.
Pieces ==
  { Chars("<b>"), Chars("</b>"), Chars("<i>"), Chars("</i>"), Chars("<B>"),
    Chars("<"), Chars(">"), Chars("&"), Chars("a"), Chars(" "), Chars("amp;"),
    Chars("@@B_OPEN@@"), Chars("@@I_CLOSE@@"), Chars("</i></b><b><i>") }

SpanTexts == {Flatten(ps) : ps \in SeqsUpTo(Pieces, MaxPieces)}

GlobalsInit ==
  /\ AUTO_ENTITIES = TRUE
  /\ NESTING_PREF = "b_outside_i"

EscIdle ==
  /\ span = <<>> /\ is_bold = FALSE /\ is_italic = FALSE
  /\ wrapped = <<>> /\ escaped = <<>> /\ epc = "idle"

BuildIdle ==
  /\ regs = <<>> /\ page_index = 0 /\ ridx = 0
  /\ counters = <<0, 0, 0, 0, 0>> /\ open_stack = <<>> /\ base_opened = FALSE
  /\ out = <<>> /\ fragment = <<>> /\ bpc = "idle"

EntIdle ==
  /\ tText = <<>> /\ tOut = <<>> /\ tpc = "idle"

InitEscape ==
  /\ GlobalsInit
  /\ span \in SpanTexts
  /\ is_bold = FALSE /\ is_italic = FALSE
  /\ wrapped = <<>> /\ escaped = <<>> /\ epc = "span"
  /\ BuildIdle /\ EntIdle /\ ZoneIdle /\ EdIdle

NextEscape == toggle_nesting \/ WrapSpan \/ Escape

SpecEscape == InitEscape /\ [][NextEscape]_vars

\* Span texts around one ampersand: what follows it is an entity, or is not.
LongName == Chars("abcdefghijklmnopqrstuvwxyz012")
AmpTails ==
  { Chars("amp;"), Chars("a;"), Chars("a1;"), Chars("1a;"), Chars(";"), Chars("#;"),
    Chars("#x;"), Chars("#65;"), Chars("#x1F;"), Chars("#X1F;"), Chars("#6a;"),
    Chars("#xg;"), <<"#", "U+0663", ";">>, <<"#", "x", "U+FF11", ";">>,
    Chars("ab"), Chars("ab c;"), Chars("&amp;"), <<>>,
    LongName \o <<";">>, LongName \o Chars("3;") }
AmpHeads == {<<>>, Chars("a&b; x ")}
AmpTexts == {h \o <<"&">> \o t : h \in AmpHeads, t \in AmpTails}

InitAmp ==
  /\ GlobalsInit
  /\ span \in AmpTexts
  /\ is_bold = FALSE /\ is_italic = FALSE
  /\ wrapped = <<>> /\ escaped = <<>> /\ epc = "span"
  /\ BuildIdle /\ EntIdle /\ ZoneIdle /\ EdIdle

NextAmp == WrapSpan \/ Escape

SpecAmp == InitAmp /\ [][NextAmp]_vars

\* Region lists of the builder.  In SpecBuild: every list of 1..MaxRegs
\* regions over the tags h1..h4 and p, with one fixed text.
StructTags == {Chars("h1"), Chars("h2"), Chars("h3"), Chars("h4"), Chars("p")}

WithIds(pidx, rs) ==
  [k \in DOMAIN rs |-> [id |-> generate_region_id(pidx, k - 1), tag |-> rs[k].tag,
                        text |-> rs[k].text, pdf_text |-> rs[k].pdf_text]]

StructRegions == {[tag |-> t, text |-> Chars("x"), pdf_text |-> <<>>] : t \in StructTags}

BuildStart ==
  /\ ridx = 0 /\ counters = <<0, 0, 0, 0, 0>> /\ open_stack = <<>>
  /\ base_opened = FALSE /\ out = <<>> /\ fragment = <<>> /\ bpc = "loop"

InitBuild ==
  /\ GlobalsInit
  /\ page_index \in 0..(MaxPage - 1)
  /\ \E rs \in SeqsUpTo(StructRegions, MaxRegs) :
       rs # <<>> /\ regs = WithIds(page_index, rs)
  /\ BuildStart
  /\ EscIdle /\ EntIdle /\ ZoneIdle /\ EdIdle

NextBuild == BuildStep \/ BuildReturn

SpecBuild == InitBuild /\ [][NextBuild]_vars

\* In SpecBuildText: lists of 1..MaxTextRegs regions over more tags and texts.
TextTags == {Chars("h1"), Chars("p"), Chars("H2"), Chars("li"), <<>>}

RegionTexts ==
  { Chars("Intro"), Chars("Hello & <world>"), Chars("<b>x</b> &copy; <y>"),
    <<"U+03B1", " ", "U+00DF">>, <<"a", "U+4E2D", "U+03D1">>, <<>> }

\* What the PDF provider returns for the rectangle of a region without text.
PdfTexts == {<<>>, <<"U+2264", "1">>}

\* Every text under the tag p, and every tag over two of the texts.
TextRegions ==
  {[tag |-> Chars("p"), text |-> x, pdf_text |-> <<>>] : x \in RegionTexts \ {<<>>}}
    \cup {[tag |-> Chars("p"), text |-> <<>>, pdf_text |-> y] : y \in PdfTexts}
    \cup {[tag |-> t, text |-> x, pdf_text |-> <<>>] :
            t \in TextTags, x \in {Chars("Intro"), <<"U+03B1", " ", "U+00DF">>}}

InitBuildText ==
  /\ GlobalsInit
  /\ page_index = 0
  /\ \E rs \in SeqsUpTo(TextRegions, MaxTextRegs) :
       rs # <<>> /\ regs = WithIds(page_index, rs)
  /\ BuildStart
  /\ EscIdle /\ EntIdle /\ ZoneIdle /\ EdIdle

NextBuildText == toggle_auto_entities \/ BuildStep \/ BuildReturn

SpecBuildText == InitBuildText /\ [][NextBuildText]_vars

\* Texts for apply_html_entities: every non-ASCII character of the model on
\* its own, and short mixed texts.
MixChars == {"U+03B1", "U+03D1", "U+00DF", "&", "a", ";"}

EntityTexts ==
  {<<NonAsciiOrd[i].c>> : i \in DOMAIN NonAsciiOrd}
    \cup SeqsUpTo(MixChars, MaxMix)
    \cup {Chars("&alpha;"), Chars("&#976;")}

InitEntity ==
  /\ GlobalsInit
  /\ tText \in EntityTexts /\ tOut = <<>> /\ tpc = "run"
  /\ EscIdle /\ BuildIdle /\ ZoneIdle /\ EdIdle

NextEntity == Transcode

SpecEntity == InitEntity /\ [][NextEntity]_vars

Spec == SpecBuild

-----------------------------------------------------------------------------
(* Properties of the section builder *)

IsOpen(el) == el.kind = "open"
IsSectionTag(el) == el.kind # "leaf"

\* The positions of out that hold an opening <section> tag.
OpenIdx == {i \in DOMAIN out : IsOpen(out[i])}
CloseIdx == {i \in DOMAIN out : out[i].kind = "close"}

\* The <section> elements open at this point of the output.
OpenSections == Cardinality(OpenIdx) - Cardinality(CloseIdx)

TagsOf(rs) == [k \in DOMAIN rs |-> RegionTag(rs[k])]

\* a < b, comparing components as integers, left to right.
RECURSIVE LexLess(_, _)
LexLess(a, b) ==
  IF b = <<>> THEN FALSE
  ELSE IF a = <<>> THEN TRUE
  ELSE IF Head(a) # Head(b) THEN Head(a) < Head(b)
  ELSE LexLess(Tail(a), Tail(b))

StripNewlines(sq) == StrReplace(sq, <<"\n">>, <<>>)

IntroRegs ==
  WithIds(0, << [tag |-> Chars("h1"), text |-> Chars("Intro"), pdf_text |-> <<>>],
                [tag |-> Chars("p"), text |-> Chars("Hello & <world>"), pdf_text |-> <<>>] >>)

\* C1 as stated: for the region list [h1 "Intro", p "Hello & <world>"] on
\* page 1 the fragment is, line breaks aside, one section holding the two leaves.
C1_OneSection ==
  (bpc = "done" /\ regs = IntroRegs /\ page_index = 0) =>
    StripNewlines(fragment) =
      Chars("<section id=\"1\"><h1 id=\"p1_r1\">Intro</h1><p id=\"p1_r2\">Hello &amp; &lt;world&gt;</p></section>")

\* C1, amended: the fragment is the page-root section "1" holding the section
\* "1.1" that the h1 heading opens, which holds the heading leaf and the
\* paragraph leaf with its text escaped.
C1_RootAndHeadingSection ==
  (bpc = "done" /\ regs = IntroRegs /\ page_index = 0) =>
    StripNewlines(fragment) =
      Chars("<section id=\"1\"><section id=\"1.1\"><h1 id=\"p1_r1\">Intro</h1><p id=\"p1_r2\">Hello &amp; &lt;world&gt;</p></section></section>")

C1_Witness == bpc = "done" /\ regs = IntroRegs /\ page_index = 0 /\ fragment # <<>>

\* C2 as stated: for the headings h1, h3 the builder emits exactly two sections.
C2_TwoSections ==
  (bpc = "done" /\ TagsOf(regs) = <<Chars("h1"), Chars("h3")>>) =>
    Cardinality(OpenIdx) = 2

\* C2, amended: for the headings h1, h3 the builder returns, and the section
\* tags of the output are exactly: the page root, the h1 section inside it, the
\* h3 section (id page.1.0.1) inside the h1 section, then the three closing
\* tags; there is no section for the skipped level 2.
C2_RootAndTwoNested ==
  (bpc = "done" /\ TagsOf(regs) = <<Chars("h1"), Chars("h3")>>) =>
    SelectSeq(out, IsSectionTag) =
      << SectionOpen(<<page_index + 1>>, 0),
         SectionOpen(<<page_index + 1, 1>>, 1),
         SectionOpen(<<page_index + 1, 1, 0, 1>>, 3),
         SectionClose, SectionClose, SectionClose >>

C2_Witness ==
  bpc = "done" /\ TagsOf(regs) = <<Chars("h1"), Chars("h3")>> /\ Cardinality(OpenIdx) = 3

\* C3 as stated: at every step at most 4 sections are open at the same time.
C3_AtMostFourOpen == OpenSections <= 4

\* C3, amended: at every step at most 5 sections are open at the same time,
\* the page root and one per heading level 1..4; the open sections are the
\* entries of open_stack.
C3_AtMostFiveOpen ==
  /\ OpenSections <= 5
  /\ bpc = "loop" => OpenSections = Len(open_stack)

C3_Witness == bpc = "loop" /\ OpenSections = 5 /\ open_stack = <<0, 1, 2, 3, 4>>

\* C4: the section ids of one output are pairwise distinct, and of two
\* sections opened at the same heading level the later has the greater id.
C4_IdsDistinctIncreasing ==
  \A i \in OpenIdx : \A j \in OpenIdx :
    i < j =>
      /\ out[i].nums # out[j].nums
      /\ out[i].lvl = out[j].lvl => LexLess(out[i].nums, out[j].nums)

\* h2, h1, h2: two sections of level 2 with a section of level 1 between them.
C4_Witness ==
  \E i \in OpenIdx : \E j \in OpenIdx : \E k \in OpenIdx :
    i < j /\ j < k /\ out[i].lvl = 2 /\ out[j].lvl = 1 /\ out[k].lvl = 2

\* C5 as stated: the id of a section has as many components as its level.
C5_ComponentsEqualLevel ==
  \A i \in OpenIdx : Len(out[i].nums) = out[i].lvl

\* C5, amended: the id of a section has one component more than its level:
\* the page number, then one counter per level 1..L (the page root, level 0,
\* has the page number alone).
C5_ComponentsLevelPlusOne ==
  \A i \in OpenIdx :
    /\ Len(out[i].nums) = out[i].lvl + 1
    /\ out[i].nums[1] = page_index + 1

C5_Witness ==
  \E i \in OpenIdx : \E j \in OpenIdx : out[i].lvl = 0 /\ out[j].lvl = 3

\* The characters of the texts the builder read.
InputChars ==
  UNION {Range(IF regs[k].text # <<>> THEN regs[k].text ELSE regs[k].pdf_text) : k \in DOMAIN regs}

-----------------------------------------------------------------------------
(* Properties of the escaper *)

InlineTags == {Chars("<b>"), Chars("</b>"), Chars("<i>"), Chars("</i>")}

\* The text holds <b>, </b>, <i> or </i> in some letter case.
HasInlineTag(sq) ==
  \E p \in 1..Len(sq) : \E t \in InlineTags : StartsWithAtI(sq, p, t)

\* C6 as stated: on a text with no inline tag, escaping the escaper's output
\* gives that output again.
C6_EscapeIdempotent ==
  (Len(escaped) = 2 /\ ~is_bold /\ ~is_italic /\ ~HasInlineTag(span)) =>
    escaped[2] = escaped[1]

\* Every '&', '<' and '>' of the text as a character reference.
FullEscape(sq) ==
  StrReplace(StrReplace(StrReplace(sq, <<"&">>, Chars("&amp;")),
                        <<"<">>, Chars("&lt;")),
             <<">">>, Chars("&gt;"))

OuterTag == IF NESTING_PREF = "b_outside_i" THEN "b" ELSE "i"
InnerTag == IF NESTING_PREF = "b_outside_i" THEN "i" ELSE "b"

\* C7 as stated: the escaped bold-italic span is the outer and the inner tag
\* in the configured order around the text with every '<', '>' and '&' of the
\* text escaped, so that the two pairs of the style are the only tags.
C7_OnePairTextEscaped ==
  (Len(escaped) >= 1 /\ is_bold /\ is_italic) =>
    escaped[1] = OpenTag(OuterTag) \o OpenTag(InnerTag) \o FullEscape(span)
                   \o CloseTag(InnerTag) \o CloseTag(OuterTag)

\* The tags from position p on are balanced, given the open tags in stack.
RECURSIVE Balanced(_, _, _)
Balanced(sq, p, stack) ==
  LET angles == {a \in p..Len(sq) : sq[a] \in {"<", ">"}} IN
    IF angles = {} THEN stack = <<>>
    ELSE LET a == MinOf(angles) IN
      IF StartsWithAt(sq, a, Chars("<b>")) THEN Balanced(sq, a + 3, Append(stack, "b"))
      ELSE IF StartsWithAt(sq, a, Chars("<i>")) THEN Balanced(sq, a + 3, Append(stack, "i"))
      ELSE IF StartsWithAt(sq, a, Chars("</b>"))
        THEN stack # <<>> /\ Last(stack) = "b"
               /\ Balanced(sq, a + 4, SubSeq(stack, 1, Len(stack) - 1))
      ELSE IF StartsWithAt(sq, a, Chars("</i>"))
        THEN stack # <<>> /\ Last(stack) = "i"
               /\ Balanced(sq, a + 4, SubSeq(stack, 1, Len(stack) - 1))
      ELSE FALSE

WellFormed(sq) == Balanced(sq, 1, <<>>)

\* C8 as stated: in the output of escape, '<' and '>' occur only in <b>, </b>,
\* <i>, </i>, and these tags are matched and properly nested.
C8_OutputWellFormed ==
  Len(escaped) >= 1 => WellFormed(escaped[1])

-----------------------------------------------------------------------------
(* Properties of the symbol table *)

\* The named character references of HTML, as a decoder reads them.
Html5Entities ==
  <<
     [name |-> "AElig", cp |-> 198], [name |-> "Aacute", cp |-> 193], [name |-> "Acirc", cp |-> 194],
     [name |-> "Agrave", cp |-> 192], [name |-> "Alpha", cp |-> 913], [name |-> "Aring", cp |-> 197],
     [name |-> "Atilde", cp |-> 195], [name |-> "Auml", cp |-> 196], [name |-> "Beta", cp |-> 914],
     [name |-> "Ccedil", cp |-> 199], [name |-> "Chi", cp |-> 935], [name |-> "Delta", cp |-> 916],
     [name |-> "Eacute", cp |-> 201], [name |-> "Ecirc", cp |-> 202], [name |-> "Egrave", cp |-> 200],
     [name |-> "Epsilon", cp |-> 917], [name |-> "Eta", cp |-> 919], [name |-> "Euml", cp |-> 203],
     [name |-> "Gamma", cp |-> 915], [name |-> "Iacute", cp |-> 205], [name |-> "Icirc", cp |-> 206],
     [name |-> "Igrave", cp |-> 204], [name |-> "Iota", cp |-> 921], [name |-> "Iuml", cp |-> 207],
     [name |-> "Kappa", cp |-> 922], [name |-> "Lambda", cp |-> 923], [name |-> "Mu", cp |-> 924],
     [name |-> "Ntilde", cp |-> 209], [name |-> "Nu", cp |-> 925], [name |-> "OElig", cp |-> 338],
     [name |-> "Oacute", cp |-> 211], [name |-> "Ocirc", cp |-> 212], [name |-> "Ograve", cp |-> 210],
     [name |-> "Omega", cp |-> 937], [name |-> "Omicron", cp |-> 927], [name |-> "Otilde", cp |-> 213],
     [name |-> "Ouml", cp |-> 214], [name |-> "Phi", cp |-> 934], [name |-> "Pi", cp |-> 928],
     [name |-> "Psi", cp |-> 936], [name |-> "Rho", cp |-> 929], [name |-> "Sigma", cp |-> 931],
     [name |-> "Tau", cp |-> 932], [name |-> "Theta", cp |-> 920], [name |-> "Uacute", cp |-> 218],
     [name |-> "Ucirc", cp |-> 219], [name |-> "Ugrave", cp |-> 217], [name |-> "Upsilon", cp |-> 933],
     [name |-> "Uuml", cp |-> 220], [name |-> "Xi", cp |-> 926], [name |-> "Zeta", cp |-> 918],
     [name |-> "aacute", cp |-> 225], [name |-> "acirc", cp |-> 226], [name |-> "aelig", cp |-> 230],
     [name |-> "agrave", cp |-> 224], [name |-> "alpha", cp |-> 945], [name |-> "aring", cp |-> 229],
     [name |-> "asymp", cp |-> 8776], [name |-> "atilde", cp |-> 227], [name |-> "auml", cp |-> 228],
     [name |-> "because", cp |-> 8757], [name |-> "beta", cp |-> 946], [name |-> "bull", cp |-> 8226],
     [name |-> "ccedil", cp |-> 231], [name |-> "chi", cp |-> 967], [name |-> "cong", cp |-> 8773],
     [name |-> "copy", cp |-> 169], [name |-> "deg", cp |-> 176], [name |-> "delta", cp |-> 948],
     [name |-> "divide", cp |-> 247], [name |-> "eacute", cp |-> 233], [name |-> "ecirc", cp |-> 234],
     [name |-> "egrave", cp |-> 232], [name |-> "epsilon", cp |-> 949], [name |-> "equiv", cp |-> 8801],
     [name |-> "eta", cp |-> 951], [name |-> "euml", cp |-> 235], [name |-> "euro", cp |-> 8364],
     [name |-> "gamma", cp |-> 947], [name |-> "ge", cp |-> 8805], [name |-> "hArr", cp |-> 8660],
     [name |-> "harr", cp |-> 8596], [name |-> "hellip", cp |-> 8230], [name |-> "iacute", cp |-> 237],
     [name |-> "icirc", cp |-> 238], [name |-> "igrave", cp |-> 236], [name |-> "in", cp |-> 8712],
     [name |-> "infin", cp |-> 8734], [name |-> "int", cp |-> 8747], [name |-> "iota", cp |-> 953],
     [name |-> "iuml", cp |-> 239], [name |-> "kappa", cp |-> 954], [name |-> "lambda", cp |-> 955],
     [name |-> "laquo", cp |-> 171], [name |-> "larr", cp |-> 8592], [name |-> "ldquo", cp |-> 8220],
     [name |-> "le", cp |-> 8804], [name |-> "lowast", cp |-> 8727], [name |-> "lsaquo", cp |-> 8249],
     [name |-> "lsquo", cp |-> 8216], [name |-> "mdash", cp |-> 8212], [name |-> "middot", cp |-> 183],
     [name |-> "mu", cp |-> 956], [name |-> "nabla", cp |-> 8711], [name |-> "ndash", cp |-> 8211],
     [name |-> "ne", cp |-> 8800], [name |-> "notin", cp |-> 8713], [name |-> "ntilde", cp |-> 241],
     [name |-> "nu", cp |-> 957], [name |-> "oacute", cp |-> 243], [name |-> "ocirc", cp |-> 244],
     [name |-> "oelig", cp |-> 339], [name |-> "ograve", cp |-> 242], [name |-> "omega", cp |-> 969],
     [name |-> "omicron", cp |-> 959], [name |-> "otilde", cp |-> 245], [name |-> "ouml", cp |-> 246],
     [name |-> "part", cp |-> 8706], [name |-> "phi", cp |-> 966], [name |-> "pi", cp |-> 960],
     [name |-> "plusmn", cp |-> 177], [name |-> "pound", cp |-> 163], [name |-> "prod", cp |-> 8719],
     [name |-> "prop", cp |-> 8733], [name |-> "psi", cp |-> 968], [name |-> "rArr", cp |-> 8658],
     [name |-> "radic", cp |-> 8730], [name |-> "raquo", cp |-> 187], [name |-> "rarr", cp |-> 8594],
     [name |-> "rdquo", cp |-> 8221], [name |-> "reg", cp |-> 174], [name |-> "rho", cp |-> 961],
     [name |-> "rsaquo", cp |-> 8250], [name |-> "rsquo", cp |-> 8217], [name |-> "sigma", cp |-> 963],
     [name |-> "sigmaf", cp |-> 962], [name |-> "sim", cp |-> 8764], [name |-> "sum", cp |-> 8721],
     [name |-> "tau", cp |-> 964], [name |-> "there4", cp |-> 8756], [name |-> "theta", cp |-> 952],
     [name |-> "times", cp |-> 215], [name |-> "trade", cp |-> 8482], [name |-> "uacute", cp |-> 250],
     [name |-> "ucirc", cp |-> 251], [name |-> "ugrave", cp |-> 249], [name |-> "upsilon", cp |-> 965],
     [name |-> "uuml", cp |-> 252], [name |-> "xi", cp |-> 958], [name |-> "zeta", cp |-> 950]
  >>

RECURSIVE StrToInt(_)
StrToInt(ds) ==
  IF ds = <<>> THEN 0
  ELSE 10 * StrToInt(SubSeq(ds, 1, Len(ds) - 1))
         + (CHOOSE d \in 0..9 : DecDigits[d + 1] = Last(ds))

IsEntity(e) ==
  /\ Len(e) >= 3 /\ e[1] = "&" /\ Last(e) = ";"
  /\ LET name == SubSeq(e, 2, Len(e) - 1)
     IN  IF name[1] = "#"
           THEN Len(name) >= 2 /\ \A k \in 2..Len(name) : name[k] \in DigitChars
           ELSE \E i \in DOMAIN Html5Entities : Chars(Html5Entities[i].name) = name

\* The code point an entity stands for.
Decode(e) ==
  LET name == SubSeq(e, 2, Len(e) - 1)
  IN  IF name[1] = "#" THEN StrToInt(Tail(name))
      ELSE Html5Entities[CHOOSE i \in DOMAIN Html5Entities :
                           Chars(Html5Entities[i].name) = name].cp

\* C9 as stated: the symbol-table character c is replaced by an entity that
\* holds no c and decodes back to c.
C9_EntityDecodesBack ==
  (Len(tOut) >= 1 /\ Len(tText) = 1 /\ tText[1] \in EntityKeys) =>
    /\ tText[1] \notin Range(tOut[1])
    /\ IsEntity(tOut[1])
    /\ Decode(tOut[1]) = Ord(tText[1])

-----------------------------------------------------------------------------
(* Properties of one step of the section builder *)

\* The region the next step of the loop reads.
NextRegion == regs[ridx + 1]
StepTaken == bpc = "loop" /\ ridx' = ridx + 1
HeadingTags == {Chars("h1"), Chars("h2"), Chars("h3"), Chars("h4")}
HeadingLevel(tag) == CHOOSE L \in 1..4 : tag = <<"h", DecDigits[L + 1]>>

\* The stack and the output once the page root is open.
WithRootStack == IF open_stack = <<>> THEN <<0>> ELSE open_stack
WithRootOut ==
  IF open_stack = <<>> THEN Append(out, SectionOpen(<<page_index + 1>>, 0)) ELSE out

\* C19: a step on a heading region of level L increments counter[L], zeroes
\* the counters of the levels above L and keeps those below; it closes
\* exactly the open sections of level >= L (never the root), opens one section
\* whose id is the page number followed by counter[1]..counter[L], pushes L,
\* and emits the heading leaf right after the opening tag.
C19_HeadingStep ==
  [][(StepTaken /\ Lower(NextRegion.tag) \in HeadingTags) =>
      LET L == HeadingLevel(Lower(NextRegion.tag))
          kept == SelectSeq(WithRootStack, LAMBDA x : x < L)
          closed == Len(WithRootStack) - Len(kept)
      IN  /\ counters'[L + 1] = counters[L + 1] + 1
          /\ \A i \in 0..4 : i > L => counters'[i + 1] = 0
          /\ \A i \in 0..4 : i < L => counters'[i + 1] = counters[i + 1]
          /\ open_stack' = Append(kept, L)
          /\ open_stack'[1] = 0
          /\ Len(out') = Len(WithRootOut) + closed + 2
          /\ SubSeq(out', 1, Len(WithRootOut)) = WithRootOut
          /\ \A k \in 1..closed : out'[Len(WithRootOut) + k].kind = "close"
          /\ out'[Len(out') - 1] =
               SectionOpen(<<page_index + 1>> \o [i \in 1..L |-> counters'[i + 1]], L)
          /\ out'[Len(out')].kind = "leaf"
          /\ out'[Len(out')].tag = Lower(NextRegion.tag)
          /\ out'[Len(out')].id = NextRegion.id
    ]_vars

\* A heading has just closed two sections and opened its own.
C19_Witness ==
  /\ bpc = "loop" /\ Len(out) >= 6
  /\ out[Len(out)].kind = "leaf" /\ out[Len(out)].tag \in HeadingTags
  /\ out[Len(out) - 1].kind = "open" /\ out[Len(out) - 1].lvl = 2
  /\ out[Len(out) - 2].kind = "close" /\ out[Len(out) - 3].kind = "close"
  /\ counters[3] >= 1 /\ counters[4] = 0

RootOpens == {i \in DOMAIN out : IsOpen(out[i]) /\ out[i].lvl = 0}

\* C20: a step on a non-heading region keeps the counters and the stack,
\* except that it opens the page root (id = page number, level 0) when no
\* section is open, and appends the leaf; in every state at most one root has
\* been opened, it is the first element of the output from the first region
\* on, whatever its tag, and it stays open until the loop has ended.
C20_NonHeadingStepAndRoot ==
  /\ [][(StepTaken /\ Lower(NextRegion.tag) \notin HeadingTags) =>
          /\ counters' = counters
          /\ open_stack' = WithRootStack
          /\ Len(out') = Len(WithRootOut) + 1
          /\ SubSeq(out', 1, Len(WithRootOut)) = WithRootOut
          /\ out'[Len(out')].kind = "leaf"
          /\ out'[Len(out')].id = NextRegion.id
       ]_vars
  /\ [](ridx = 0 => out = <<>>)
  /\ [](ridx >= 1 => RootOpens = {1} /\ out[1].nums = <<page_index + 1>>)
  /\ []((bpc = "loop" /\ ridx >= 1) => (open_stack # <<>> /\ open_stack[1] = 0))
  /\ [](bpc = "loop" => (base_opened <=> open_stack # <<>>))

\* A paragraph opened the root, a heading section followed, and a paragraph
\* went into it.
C20_Witness ==
  /\ bpc = "loop" /\ ridx = 3
  /\ out[1].kind = "open" /\ out[2].kind = "leaf" /\ out[2].tag = Chars("p")
  /\ out[Len(out)].kind = "leaf" /\ out[Len(out)].tag = Chars("p")
  /\ open_stack = <<0, 2>>

-----------------------------------------------------------------------------
(* PDFParaEditor: paragraph split and merge (src/zone.py)                  *)
(*                                                                         *)
(* Coordinates are integers, in tenths of a point.  A box is               *)
(* <<x0, y0, x1, y1>>, a word is <<x0, y0, x1, y1, text>> as the provider  *)
(* returns it, a paragraph is [bbox, text, words].                         *)

Max(a, b) == IF a >= b THEN a ELSE b

MaxOf(S) == CHOOSE x \in S : \A y \in S : x >= y

\* The tolerance 0.1 of words_in_bbox, in tenths of a point.
CoordTol == 1

\* Cap on the snapshots kept by push_undo.
MaxZoneUndo == 2

bbox_contains(bbox, x, y) ==
  bbox[1] <= x /\ x <= bbox[3] /\ bbox[2] <= y /\ y <= bbox[4]

\* Variant: the first box, not the union.
bbox_merge_first(b1, b2) == b1

bbox_merge(b1, b2) ==
  <<Min(b1[1], b2[1]), Min(b1[2], b2[2]), Max(b1[3], b2[3]), Max(b1[4], b2[4])>>

\* sorted(inside, key=lambda w: (w[1], w[0])): a stable sort.
WordKeyLess(a, b) == a[2] < b[2] \/ (a[2] = b[2] /\ a[1] < b[1])

RECURSIVE SortWords(_)
SortWords(ws) ==
  IF ws = <<>> THEN <<>>
  ELSE LET rest == SortWords(Tail(ws))
           k == Cardinality({i \in DOMAIN rest : WordKeyLess(rest[i], Head(ws))})
       IN  SubSeq(rest, 1, k) \o <<Head(ws)>> \o SubSeq(rest, k + 1, Len(rest))

WordInside(w, bbox) ==
  /\ w[1] >= bbox[1] - CoordTol /\ w[3] <= bbox[3] + CoordTol
  /\ w[2] >= bbox[2] - CoordTol /\ w[4] <= bbox[4] + CoordTol

words_in_bbox(words, bbox) ==
  SortWords(SelectSeq(words, LAMBDA w : WordInside(w, bbox)))

\* Four times the square of the distance from the centre of w to the point.
CentreDist2(w, click_x, click_y) ==
  (w[1] + w[3] - 2 * click_x) * (w[1] + w[3] - 2 * click_x)
    + (w[2] + w[4] - 2 * click_y) * (w[2] + w[4] - 2 * click_y)

\* Variant: "d <= best_d", the last word at the least distance.
nearest_word_index_last(words_list, click_x, click_y) ==
  MaxOf({i \in DOMAIN words_list :
           \A j \in DOMAIN words_list :
             CentreDist2(words_list[i], click_x, click_y)
               <= CentreDist2(words_list[j], click_x, click_y)}) - 1

\* nearest_word_index on a non-empty list: the zero-based index of the first
\* word at the least distance.
nearest_word_index(words_list, click_x, click_y) ==
  MinOf({i \in DOMAIN words_list :
           \A j \in DOMAIN words_list :
             CentreDist2(words_list[i], click_x, click_y)
               <= CentreDist2(words_list[j], click_x, click_y)}) - 1

\* str.strip()
Strip(sq) ==
  LET keep == {i \in DOMAIN sq : sq[i] \notin SpaceChars}
  IN  IF keep = {} THEN <<>> ELSE SubSeq(sq, MinOf(keep), MaxOf(keep))

\* " ".join(w[4] for w in ws)
JoinWords(ws) == Join(<<" ">>, [i \in DOMAIN ws |-> ws[i][5]])

\* (min x0, min y0, max x1, max y1) over a non-empty word list.
WordsBox(ws) ==
  << MinOf({ws[i][1] : i \in DOMAIN ws}), MinOf({ws[i][2] : i \in DOMAIN ws}),
     MaxOf({ws[i][3] : i \in DOMAIN ws}), MaxOf({ws[i][4] : i \in DOMAIN ws}) >>

Para(bbox, text, words) == [bbox |-> bbox, text |-> text, words |-> words]

\* paras.pop(pi); paras.insert(pi, second); paras.insert(pi, first)
ReplaceByTwo(paras, pi, first, second) ==
  SubSeq(paras, 1, pi) \o <<first, second>> \o SubSeq(paras, pi + 2, Len(paras))

\* The documents the PDF provider can hand to open_pdf: per page, the text
\* blocks (box and text) and the words.  Document 1 has two pages, and the
\* block of its first page is wider than its words; the first block of
\* document 2 is 0.1 point narrower than its last word; the block of
\* document 3 is exactly the box of its words.
WordA == <<0, 0, 20, 10, Chars("A")>>
WordB == <<30, 0, 50, 10, Chars("B")>>
WordC == <<0, 20, 20, 30, Chars("C")>>
WordD == <<0, 0, 20, 10, Chars("D")>>

ZoneDocs ==
  << << [blocks |-> << [bbox |-> <<0, 0, 60, 30>>, text |-> Chars("A B\nC\n")] >>,
         words |-> <<WordA, WordB, WordC>>],
        [blocks |-> << [bbox |-> <<0, 0, 20, 10>>, text |-> Chars("D\n")] >>,
         words |-> <<WordD>>] >>,
     << [blocks |-> << [bbox |-> <<0, 0, 49, 10>>, text |-> Chars("A B\n")],
                       [bbox |-> <<0, 20, 20, 30>>, text |-> Chars("C\n")] >>,
         words |-> <<WordA, WordB, WordC>>] >>,
     << [blocks |-> << [bbox |-> <<0, 0, 50, 10>>, text |-> Chars("A B\n")] >>,
         words |-> <<WordA, WordB>>] >> >>

\* Where the user clicks, in page coordinates.
\* <<25, 5>> is as far from the centre of word A as from the centre of word B.
ZonePoints == {<<10, 5>>, <<40, 5>>, <<10, 25>>, <<55, 25>>, <<25, 5>>}

ZoneLen == Len(ZoneDocs[zdoc])
ZoneParas == paragraphs_by_page[current_page + 1]

\* The paragraphs open_pdf makes of one page.
PageParas(page) ==
  [b \in DOMAIN page.blocks |->
     Para(page.blocks[b].bbox, Strip(page.blocks[b].text),
          words_in_bbox(page.words, page.blocks[b].bbox))]

\* The zero-based index of the first paragraph whose box holds the point, or -1.
ClickedIdx(paras, ux, uy) ==
  LET hit == {i \in DOMAIN paras : bbox_contains(paras[i].bbox, ux, uy)}
  IN  IF hit = {} THEN -1 ELSE MinOf(hit) - 1

ZoneInit ==
  /\ zdoc = 0 /\ current_page = 0 /\ paragraphs_by_page = <<>>
  /\ selected_indices = {} /\ z_undo_stack = <<>> /\ last_right_click = None
  /\ z_msg = "none" /\ z_last = None

ZoneFrame == UNCHANGED <<globalVars, escVars, buildVars, entVars, edVars>>

\* open_pdf, on the first document the user opens.
zone_open_pdf ==
  /\ zdoc = 0
  /\ \E d \in DOMAIN ZoneDocs :
       /\ zdoc' = d
       /\ paragraphs_by_page' = [pno \in DOMAIN ZoneDocs[d] |-> PageParas(ZoneDocs[d][pno])]
  /\ current_page' = 0
  /\ z_msg' = "none"
  /\ UNCHANGED <<selected_indices, z_undo_stack, last_right_click, z_last>>
  /\ ZoneFrame

on_canvas_left_click ==
  /\ zdoc # 0
  /\ \E pt \in ZonePoints, ctrl \in BOOLEAN :
       LET clicked_idx == ClickedIdx(ZoneParas, pt[1], pt[2]) IN
         selected_indices' =
           IF clicked_idx = -1 THEN selected_indices
           ELSE IF ~ctrl THEN {clicked_idx}
           ELSE IF clicked_idx \in selected_indices THEN selected_indices \ {clicked_idx}
           ELSE selected_indices \cup {clicked_idx}
  /\ z_msg' = "none"
  /\ UNCHANGED <<zdoc, current_page, paragraphs_by_page, z_undo_stack, last_right_click, z_last>>
  /\ ZoneFrame

on_canvas_right_click ==
  /\ zdoc # 0
  /\ \E pt \in ZonePoints :
       LET clicked_idx == ClickedIdx(ZoneParas, pt[1], pt[2]) IN
         IF clicked_idx = -1
           THEN z_msg' = "Right-click inside paragraph" /\ UNCHANGED last_right_click
           ELSE /\ z_msg' = "none"
                \* para is not in the program: it remembers the paragraph the
                \* point was set in, and no handler reads it.
                /\ last_right_click' = [page |-> current_page, para_index |-> clicked_idx,
                                        x |-> pt[1], y |-> pt[2],
                                        para |-> ZoneParas[clicked_idx + 1]]
  /\ UNCHANGED <<zdoc, current_page, paragraphs_by_page, selected_indices, z_undo_stack, z_last>>
  /\ ZoneFrame

\* push_undo: a deep copy of paragraphs_by_page.
ZonePushUndo == z_undo_stack' = Append(z_undo_stack, paragraphs_by_page)

\* The handler returns at once: no message, nothing changed.
ZoneReturn ==
  /\ z_msg' = "none"
  /\ UNCHANGED <<paragraphs_by_page, selected_indices, z_undo_stack, last_right_click, z_last>>

\* The handler shows a message and returns, nothing changed.
ZoneReject(msg) ==
  /\ z_msg' = msg
  /\ UNCHANGED <<paragraphs_by_page, selected_indices, z_undo_stack, last_right_click, z_last>>

SplitParas(first_words, second_words) ==
  << Para(WordsBox(first_words), JoinWords(first_words), first_words),
     Para(WordsBox(second_words), JoinWords(second_words), second_words) >>

on_split_horizontal ==
  /\ Len(z_undo_stack) < MaxZoneUndo
  /\ IF last_right_click = None THEN ZoneReturn
     ELSE IF last_right_click.page # current_page
       THEN ZoneReject("Split point is on another page.")
     ELSE LET pi == last_right_click.para_index
              paras == ZoneParas
          IN
       IF pi < 0 \/ pi >= Len(paras) THEN ZoneReturn
       ELSE IF paras[pi + 1].words = <<>> THEN ZoneReturn
       ELSE LET words == paras[pi + 1].words
                idx_word == nearest_word_index(words, last_right_click.x, last_right_click.y)
                left_words == SubSeq(words, 1, idx_word + 1)
                right_words == SubSeq(words, idx_word + 2, Len(words))
                halves == SplitParas(left_words, right_words)
            IN
         /\ ZonePushUndo
         /\ IF right_words = <<>>
              THEN /\ z_msg' = "Split location produced empty right paragraph."
                   /\ UNCHANGED <<paragraphs_by_page, selected_indices, last_right_click, z_last>>
              ELSE /\ paragraphs_by_page' =
                        [paragraphs_by_page EXCEPT ![current_page + 1] =
                           ReplaceByTwo(paras, pi, halves[1], halves[2])]
                   /\ last_right_click' = None
                   /\ z_msg' = "split horizontally."
                   /\ z_last' = [op |-> "split_horizontal", page |-> current_page,
                                 index |-> pi, para |-> paras[pi + 1],
                                 x |-> last_right_click.x, y |-> last_right_click.y]
                   /\ UNCHANGED selected_indices
  /\ UNCHANGED <<zdoc, current_page>>
  /\ ZoneFrame

on_split_vertical ==
  /\ Len(z_undo_stack) < MaxZoneUndo
  /\ IF last_right_click = None THEN ZoneReturn
     ELSE IF last_right_click.page # current_page
       THEN ZoneReject("Split point is on another page.")
     ELSE LET pi == last_right_click.para_index
              paras == ZoneParas
          IN
       IF pi < 0 \/ pi >= Len(paras) THEN ZoneReturn
       ELSE LET para == paras[pi + 1]
                \* (w[0] + w[2]) / 2 <= (x0 + x1) / 2
                words_left == SelectSeq(para.words,
                                LAMBDA w : w[1] + w[3] <= para.bbox[1] + para.bbox[3])
                words_right == SelectSeq(para.words,
                                 LAMBDA w : w[1] + w[3] > para.bbox[1] + para.bbox[3])
                halves == SplitParas(words_left, words_right)
            IN
         IF words_left = <<>> \/ words_right = <<>>
           THEN ZoneReject("Cannot split vertically (no words on one side).")
           ELSE /\ ZonePushUndo
                /\ paragraphs_by_page' =
                     [paragraphs_by_page EXCEPT ![current_page + 1] =
                        ReplaceByTwo(paras, pi, halves[1], halves[2])]
                /\ z_msg' = "split vertically."
                /\ z_last' = [op |-> "split_vertical", page |-> current_page,
                              index |-> pi, para |-> para]
                /\ UNCHANGED <<selected_indices, last_right_click>>
  /\ UNCHANGED <<zdoc, current_page>>
  /\ ZoneFrame

\* sorted(self.selected_indices)
RECURSIVE SortedSel(_)
SortedSel(S) ==
  IF S = {} THEN <<>> ELSE <<MinOf(S)>> \o SortedSel(S \ {MinOf(S)})

\* Variant: the adjacency loop left out.
SelAdjacentAlways(sel) == TRUE

\* for a, b in zip(sel, sel[1:]): if b != a + 1: reject

SelAdjacent(sel) == \A k \in 1..(Len(sel) - 1) : sel[k + 1] = sel[k] + 1

\* The loop over reversed(sel): bounding boxes folded with bbox_merge,
\* starting from the first selected paragraph's box.
RECURSIVE MergedBBox(_, _, _, _)
MergedBBox(paras, sel, k, acc) ==
  IF k = 0 THEN acc
  ELSE MergedBBox(paras, sel, k - 1, bbox_merge(acc, paras[sel[k] + 1].bbox))

\* Variant: "merged_words = merged_words + p.get('words', [])", the word
\* lists in the order of the pops.
RECURSIVE MergedWordsReversed(_, _, _)
MergedWordsReversed(paras, sel, k) ==
  IF k > Len(sel) THEN <<>>
  ELSE MergedWordsReversed(paras, sel, k + 1) \o paras[sel[k] + 1].words

\* merged_words = p.get('words', []) + merged_words, over reversed(sel)
RECURSIVE MergedWords(_, _, _)
MergedWords(paras, sel, k) ==
  IF k > Len(sel) THEN <<>>
  ELSE paras[sel[k] + 1].words \o MergedWords(paras, sel, k + 1)

MergedPara(paras, sel) ==
  Para(MergedBBox(paras, sel, Len(sel), paras[sel[1] + 1].bbox),
       Join(<<"\n">>, [k \in 1..Len(sel) |-> paras[sel[k] + 1].text]),
       MergedWords(paras, sel, 1))

\* paras with the selected run popped and the merged paragraph inserted at first.
MergeParas(paras, sel) ==
  SubSeq(paras, 1, sel[1]) \o <<MergedPara(paras, sel)>>
    \o SubSeq(paras, Last(sel) + 2, Len(paras))

on_merge ==
  /\ (Cardinality(selected_indices) >= 2 /\ SelAdjacent(SortedSel(selected_indices)))
       => Len(z_undo_stack) < MaxZoneUndo
  /\ IF Cardinality(selected_indices) < 2
       THEN ZoneReject("Select 2+ adjacent paragraphs (Ctrl+Click).")
     ELSE LET paras == ZoneParas
              sel == SortedSel(selected_indices)
          IN
       IF ~SelAdjacent(sel) THEN ZoneReject("Selected must be adjacent.")
       ELSE /\ ZonePushUndo
            /\ IF Last(sel) >= Len(paras)
                 \* paras.pop(idx) raises IndexError before anything is popped
                 THEN /\ z_msg' = "IndexError"
                      /\ UNCHANGED <<paragraphs_by_page, selected_indices,
                                     last_right_click, z_last>>
                 ELSE /\ paragraphs_by_page' =
                           [paragraphs_by_page EXCEPT ![current_page + 1] =
                              MergeParas(paras, sel)]
                      /\ selected_indices' = {sel[1]}
                      /\ z_msg' = "Paragraphs merged."
                      /\ z_last' = [op |-> "merge", page |-> current_page,
                                    index |-> sel[1], para |-> MergedPara(paras, sel),
                                    count |-> Len(sel), prev |-> z_last]
                      /\ UNCHANGED last_right_click
  /\ UNCHANGED <<zdoc, current_page>>
  /\ ZoneFrame

on_undo ==
  /\ IF z_undo_stack = <<>> THEN ZoneReturn
     ELSE /\ paragraphs_by_page' = Last(z_undo_stack)
          /\ z_undo_stack' = SubSeq(z_undo_stack, 1, Len(z_undo_stack) - 1)
          /\ z_msg' = "undo"
          /\ z_last' = None
          /\ UNCHANGED <<selected_indices, last_right_click>>
  /\ UNCHANGED <<zdoc, current_page>>
  /\ ZoneFrame

next_page ==
  /\ zdoc # 0
  /\ current_page < ZoneLen - 1
  /\ current_page' = current_page + 1
  /\ z_msg' = "page"
  /\ UNCHANGED <<zdoc, paragraphs_by_page, selected_indices, z_undo_stack,
                 last_right_click, z_last>>
  /\ ZoneFrame

prev_page ==
  /\ zdoc # 0
  /\ current_page > 0
  /\ current_page' = current_page - 1
  /\ z_msg' = "page"
  /\ UNCHANGED <<zdoc, paragraphs_by_page, selected_indices, z_undo_stack,
                 last_right_click, z_last>>
  /\ ZoneFrame

InitZone == GlobalsInit /\ EscIdle /\ BuildIdle /\ EntIdle /\ EdIdle /\ ZoneInit

NextZone ==
  \/ zone_open_pdf
  \/ on_canvas_left_click
  \/ on_canvas_right_click
  \/ on_split_horizontal
  \/ on_split_vertical
  \/ on_merge
  \/ on_undo
  \/ next_page
  \/ prev_page

SpecZone == InitZone /\ [][NextZone]_vars

-----------------------------------------------------------------------------
(* The reorder editor (src/stage.py)                                       *)
(*                                                                         *)
(* A second PDFParaEditor, with the fields of the first: it runs on the    *)
(* same variables.  Its paragraphs carry a number, [bbox, text, words,     *)
(* number], and Ctrl+Up and Ctrl+Down move the selected paragraph.         *)

StagePara(bbox, text, words, number) ==
  [bbox |-> bbox, text |-> text, words |-> words, number |-> number]

\* The documents handed to open_pdf: one block per word.  Document 1 has a
\* page of three paragraphs and a page of one, document 2 a page of two.
StageBlock(y, t) ==
  [bbox |-> <<0, y, 50, y + 10>>, text |-> Chars(t) \o <<"\n">>]
StageWord(y, t) == <<0, y, 50, y + 10, Chars(t)>>

StageDocs ==
  << << [blocks |-> <<StageBlock(0, "P"), StageBlock(20, "Q"), StageBlock(40, "R")>>,
         words |-> <<StageWord(0, "P"), StageWord(20, "Q"), StageWord(40, "R")>>],
        [blocks |-> <<StageBlock(0, "S")>>, words |-> <<StageWord(0, "S")>>] >>,
     << [blocks |-> <<StageBlock(0, "P"), StageBlock(20, "Q")>>,
         words |-> <<StageWord(0, "P"), StageWord(20, "Q")>>] >> >>

StagePoints == {<<10, 5>>, <<10, 25>>, <<10, 45>>}

\* paras.append({'bbox': ..., 'text': text.strip(), 'words': w_in, 'number': idx+1})
StagePageParas(page) ==
  [b \in DOMAIN page.blocks |->
     StagePara(page.blocks[b].bbox, Strip(page.blocks[b].text),
               words_in_bbox(page.words, page.blocks[b].bbox), b)]

StageReturn ==
  /\ z_msg' = "none"
  /\ UNCHANGED <<paragraphs_by_page, selected_indices, z_undo_stack, z_last>>

\* open_pdf, on the first document the user opens.
stage_open_pdf ==
  /\ zdoc = 0
  /\ \E d \in DOMAIN StageDocs :
       /\ zdoc' = d
       /\ paragraphs_by_page' = [pno \in DOMAIN StageDocs[d] |-> StagePageParas(StageDocs[d][pno])]
  /\ current_page' = 0
  /\ z_msg' = "none"
  /\ UNCHANGED <<selected_indices, z_undo_stack, last_right_click, z_last>>
  /\ ZoneFrame

stage_on_canvas_left_click ==
  /\ zdoc # 0
  /\ \E pt \in StagePoints, ctrl \in BOOLEAN :
       LET clicked_idx == ClickedIdx(ZoneParas, pt[1], pt[2]) IN
         IF clicked_idx = -1 THEN UNCHANGED <<selected_indices, z_last>>
         ELSE /\ selected_indices' =
                   IF ~ctrl THEN {clicked_idx}
                   ELSE IF clicked_idx \in selected_indices
                     THEN selected_indices \ {clicked_idx}
                   ELSE selected_indices \cup {clicked_idx}
              /\ z_last' = None
  /\ z_msg' = "none"
  /\ UNCHANGED <<zdoc, current_page, paragraphs_by_page, z_undo_stack, last_right_click>>
  /\ ZoneFrame

\* for i, p in enumerate(paras): p['number'] = i + 1
Renumber(paras) == [i \in DOMAIN paras |-> [paras[i] EXCEPT !.number = i]]

\* paras[i-1], paras[i] = paras[i], paras[i-1] on the one-based positions
\* i, i + 1, then the renumbering.
SwapAt(paras, i) ==
  Renumber([k \in DOMAIN paras |->
              IF k = i THEN paras[i + 1] ELSE IF k = i + 1 THEN paras[i] ELSE paras[k]])

\* What ctrl_up and ctrl_down do once the checks are passed: the paragraph
\* at index from goes to index to (from and to are neighbours).
StageMove(op, from, to) ==
  LET paras == ZoneParas IN
    /\ ZonePushUndo
    /\ IF from >= Len(paras)
         \* paras[idx] raises IndexError, after push_undo
         THEN /\ z_msg' = "IndexError"
              /\ UNCHANGED <<paragraphs_by_page, selected_indices, z_last>>
         ELSE /\ paragraphs_by_page' =
                   [paragraphs_by_page EXCEPT ![current_page + 1] = SwapAt(paras, Min(from, to) + 1)]
              /\ selected_indices' = {to}
              /\ z_msg' = "moved"
              /\ z_last' = [op |-> op, page |-> current_page, index |-> to,
                            text |-> paras[from + 1].text, before |-> paras,
                            prev |-> IF z_last = None THEN None
                                     ELSE [z_last EXCEPT !.prev = None]]

ctrl_up ==
  /\ LET idx == CHOOSE i \in selected_indices : TRUE IN
       IF Cardinality(selected_indices) # 1 THEN StageReturn
       ELSE IF idx = 0 THEN StageReturn
       ELSE Len(z_undo_stack) < MaxZoneUndo /\ StageMove("up", idx, idx - 1)
  /\ UNCHANGED <<zdoc, current_page, last_right_click>>
  /\ ZoneFrame

ctrl_down ==
  /\ LET idx == CHOOSE i \in selected_indices : TRUE IN
       IF Cardinality(selected_indices) # 1 THEN StageReturn
       ELSE IF idx >= Len(ZoneParas) - 1 THEN StageReturn
       ELSE Len(z_undo_stack) < MaxZoneUndo /\ StageMove("down", idx, idx + 1)
  /\ UNCHANGED <<zdoc, current_page, last_right_click>>
  /\ ZoneFrame

stage_on_undo ==
  /\ IF z_undo_stack = <<>> THEN StageReturn
     ELSE /\ paragraphs_by_page' = Last(z_undo_stack)
          /\ z_undo_stack' = SubSeq(z_undo_stack, 1, Len(z_undo_stack) - 1)
          /\ z_msg' = "undo"
          /\ z_last' = IF z_last = None THEN None ELSE [z_last EXCEPT !.op = "undone"]
          /\ UNCHANGED selected_indices
  /\ UNCHANGED <<zdoc, current_page, last_right_click>>
  /\ ZoneFrame

stage_next_page ==
  /\ zdoc # 0
  /\ current_page < Len(StageDocs[zdoc]) - 1
  /\ current_page' = current_page + 1
  /\ z_msg' = "page"
  /\ UNCHANGED <<zdoc, paragraphs_by_page, selected_indices, z_undo_stack,
                 last_right_click, z_last>>
  /\ ZoneFrame

stage_prev_page ==
  /\ zdoc # 0
  /\ current_page > 0
  /\ current_page' = current_page - 1
  /\ z_msg' = "page"
  /\ UNCHANGED <<zdoc, paragraphs_by_page, selected_indices, z_undo_stack,
                 last_right_click, z_last>>
  /\ ZoneFrame

InitStage == InitZone

NextStage ==
  \/ stage_open_pdf
  \/ stage_on_canvas_left_click
  \/ ctrl_up
  \/ ctrl_down
  \/ stage_on_undo
  \/ stage_next_page
  \/ stage_prev_page

SpecStage == InitStage /\ [][NextStage]_vars

(* ---------------- Paragraph editor: split then merge ------------------- *)

\* The last paragraph operation was a merge of exactly the two halves that
\* the horizontal split just before it made.
MergedAfterSplit ==
  /\ z_last # None /\ z_last.op = "merge" /\ z_last.count = 2
  /\ z_last.prev # None /\ z_last.prev.op = "split_horizontal"
  /\ z_last.prev.page = z_last.page /\ z_last.prev.index = z_last.index

\* The paragraph the merge left on the page.
MergedNow == paragraphs_by_page[z_last.page + 1][z_last.index + 1]

\* Equal as multisets of words.
SameBag(s, t) ==
  /\ Len(s) = Len(t)
  /\ \A i \in DOMAIN s :
       Cardinality({j \in DOMAIN s : s[j] = s[i]})
         = Cardinality({j \in DOMAIN t : t[j] = s[i]})

\* C14 as stated: after a horizontal split that succeeds, merging the two
\* halves at once gives a paragraph whose box equals the box of the original
\* paragraph and whose multiset of words equals the original's.
C14_MergeRestoresBBox ==
  MergedAfterSplit =>
    /\ MergedNow.bbox = z_last.prev.para.bbox
    /\ SameBag(MergedNow.words, z_last.prev.para.words)

\* C14 amended: after a horizontal split that succeeds, merging the two
\* halves at once gives a paragraph whose words are the original's in the
\* original order and whose box is the tight bounding box of those words; it
\* equals the original box exactly when the original box was tight.
C14_MergeGivesWordsBox ==
  MergedAfterSplit =>
    /\ MergedNow = z_last.para
    /\ MergedNow.words = z_last.prev.para.words
    /\ SameBag(MergedNow.words, z_last.prev.para.words)
    /\ MergedNow.bbox = WordsBox(z_last.prev.para.words)
    /\ (MergedNow.bbox = z_last.prev.para.bbox)
         <=> (z_last.prev.para.bbox = WordsBox(z_last.prev.para.words))

\* A split and merge of a paragraph whose box was wider than its words, and
\* one of a paragraph whose box was tight.
C14_Witness ==
  /\ MergedAfterSplit
  /\ MergedNow.bbox # z_last.prev.para.bbox
  /\ Len(MergedNow.words) = 3

C14_WitnessTight ==
  /\ MergedAfterSplit
  /\ MergedNow.bbox = z_last.prev.para.bbox

(* ---------------- Paragraph editor: rejected split ---------------------- *)

\* The step is a split that was rejected because one side would be empty.
SplitRejectedEmptySide ==
  z_msg' \in {"Split location produced empty right paragraph.",
              "Cannot split vertically (no words on one side)."}

\* C15: a split, at point or vertical, that is rejected because one side would
\* be empty leaves the paragraph lists and the undo stack exactly as they were.
C15_RejectedSplitChangesNothing ==
  [][SplitRejectedEmptySide =>
       /\ paragraphs_by_page' = paragraphs_by_page
       /\ z_undo_stack' = z_undo_stack]_vars

(* ---------------- Paragraph editor: merge of a selection --------------- *)

\* The selection, sorted ascending, is a run of consecutive indices.
Contiguous(S) == S # {} /\ MaxOf(S) - MinOf(S) + 1 = Cardinality(S)

HasGap(S) == Cardinality(S) >= 2 /\ ~Contiguous(S)

\* C16: on_merge changes the paragraphs only for a selection of two or more
\* indices that are contiguous when sorted; a selection with a gap is rejected
\* as non-adjacent, and the paragraph lists, the selection and the undo stack
\* stay as they were.
C16_MergeOnlyContiguous ==
  [][on_merge =>
       /\ (paragraphs_by_page' # paragraphs_by_page =>
             Cardinality(selected_indices) >= 2 /\ Contiguous(selected_indices))
       /\ (HasGap(selected_indices) =>
             /\ z_msg' = "Selected must be adjacent."
             /\ paragraphs_by_page' = paragraphs_by_page
             /\ selected_indices' = selected_indices
             /\ z_undo_stack' = z_undo_stack)]_vars

\* A merge was just rejected for a selection with a gap, on a page of three
\* paragraphs, with a snapshot on the undo stack.
C16_Witness ==
  /\ z_msg = "Selected must be adjacent."
  /\ HasGap(selected_indices)
  /\ zdoc # 0 /\ Len(ZoneParas) = 3
  /\ z_undo_stack # <<>>

\* A merge of a contiguous selection was just applied.
C16_WitnessApplied ==
  /\ z_msg = "Paragraphs merged."
  /\ z_last # None /\ z_last.op = "merge" /\ z_last.count >= 2

-----------------------------------------------------------------------------
(* The tagger window (src/all.py): the handlers that create and change the *)
(* regions of a page.  Coordinates are page coordinates in points, a rect  *)
(* is <<x0, y0, x1, y1>>, a region is [id, rect, text, tag].  A page of a  *)
(* document is the list of its text lines; each line is one block, one     *)
(* span and one word, with its box, font size (0 when the span carries     *)
(* none), text and style flags.                                            *)

Line(bbox, size, text, bold, italic) ==
  [bbox |-> bbox, size |-> size, text |-> text, bold |-> bold, italic |-> italic]

\* Four lines, the first two 2 points apart, the others 20 points apart.
PageOfSizes(s1, s2, s3, s4) ==
  << Line(<<10, 10, 90, 20>>, s1, Chars("A"), FALSE, FALSE),
     Line(<<10, 22, 90, 32>>, s2, <<"U+00A9">>, FALSE, FALSE),
     Line(<<10, 52, 90, 62>>, s3, Chars("c"), FALSE, FALSE),
     Line(<<10, 82, 90, 92>>, s4, Chars("d"), FALSE, FALSE) >>

\* A line 20 points below the others whose span carries no font size.
UnsizedLine == Line(<<10, 112, 90, 122>>, 0, Chars("e"), FALSE, FALSE)

\* A third line 2 points below the first two.
ThirdLine == Line(<<10, 34, 90, 44>>, 10, Chars("b"), FALSE, FALSE)

\* The document: a page with font sizes 12, 12, 9, 6, and a page with font
\* sizes 10, 10, 10, 9, 6 and the unsized line.
EdDocs ==
  << << PageOfSizes(12, 12, 9, 6),
        SubSeq(PageOfSizes(10, 10, 9, 6), 1, 2) \o <<ThirdLine>>
          \o SubSeq(PageOfSizes(10, 10, 9, 6), 3, 4) \o <<UnsizedLine>> >> >>

\* The drags of the mouse, from the press to the release, in page coordinates:
\* around the first two lines, around the unsized line from the lower right
\* corner, and one a point wide.
EdDrags == { <<5, 5, 95, 33>>, <<95, 125, 5, 110>>, <<5, 5, 6, 95>> }

\* Where the user clicks, in page coordinates.
EdPoints == { <<50, 15>>, <<50, 70>> }

\* The tags the user assigns by menu or key.
EdTags == { Chars("h1"), Chars("p") }

EdPage == EdDocs[ed_doc][st_page_index + 1]

\* state.regions.get(p, [])
RegsOf(rm, p) == IF p \in DOMAIN rm THEN rm[p] ELSE <<>>

\* state.regions[p] = rs, the key created when missing
SetRegs(rm, p, rs) == [k \in DOMAIN rm \cup {p} |-> IF k = p THEN rs ELSE rm[k]]

Region(id, rect, text, tag) == [id |-> id, rect |-> rect, text |-> text, tag |-> tag]

rect_normalize(r) ==
  <<Min(r[1], r[3]), Min(r[2], r[4]), Max(r[1], r[3]), Max(r[2], r[4])>>

\* page.get_text('dict', clip=rect): the lines with a part inside the rect.
Overlaps(bbox, rect) ==
  /\ Max(bbox[1], rect[1]) < Min(bbox[3], rect[3])
  /\ Max(bbox[2], rect[2]) < Min(bbox[4], rect[4])

ClipLines(page, rect) == SelectSeq(page, LAMBDA l : Overlaps(l.bbox, rect))

\* s.replace('\n', ' ')
NlToSpace(s) == [i \in DOMAIN s |-> IF s[i] = "\n" THEN " " ELSE s[i]]

extract_text_from_rect(page, rect) ==
  LET lines == ClipLines(page, rect)
      stripped == [i \in DOMAIN lines |-> Strip(NlToSpace(lines[i].text))]
      kept == SelectSeq([i \in DOMAIN lines |-> i], LAMBDA i : stripped[i] # <<>>)
      txt_parts == [k \in DOMAIN kept |->
                      wrap_span_text(stripped[kept[k]], lines[kept[k]].bold,
                                     lines[kept[k]].italic)]
  IN  Strip(Join(<<"\n">>, txt_parts))

\* The texts of the runs of consecutive unstyled lines of the pages, and the
\* results of apply_html_entities and of the escaper on them, computed once.
EdRunTexts ==
  UNION { { Join(<<"\n">>, [k \in 1..(x[2] - x[1] + 1) |-> page[x[1] + k - 1].text]) :
              x \in {y \in (DOMAIN page) \X (DOMAIN page) : y[1] <= y[2]} } :
          page \in UNION {Range(EdDocs[d]) : d \in DOMAIN EdDocs} }

TranscodeTable == [t \in EdRunTexts |-> apply_html_entities(t)]

EscapeTable ==
  [t \in EdRunTexts \cup {TranscodeTable[u] : u \in EdRunTexts} |->
     escape_html_keep_bi_and_entities(t)]

\* apply_html_entities(t), looked up when t is in the table
Transcoded(t) ==
  IF t \in DOMAIN TranscodeTable THEN TranscodeTable[t] ELSE apply_html_entities(t)

\* escape_html_keep_bi_and_entities(t), looked up when t is in the table
Escaped(t) ==
  IF t \in DOMAIN EscapeTable THEN EscapeTable[t] ELSE escape_html_keep_bi_and_entities(t)

\* The text a new region gets: extracted, and transcoded when AUTO_ENTITIES.
NewRegionText(page, rect) ==
  LET raw_text == extract_text_from_rect(page, rect)
  IN  IF AUTO_ENTITIES THEN Transcoded(raw_text) ELSE raw_text

\* Variant: the handler does not call push_undo.
EdPushUndoNone ==
  /\ UNCHANGED <<undo_stack, redo_stack>>
  /\ ed_ops' = ed_ops + 1

\* Variant: push_undo without state.redo_stack.clear().
EdPushUndoKeepRedo ==
  /\ undo_stack' = Append(undo_stack, regions)
  /\ UNCHANGED redo_stack
  /\ ed_ops' = ed_ops + 1

\* push_undo
EdPushUndo ==
  /\ undo_stack' = Append(undo_stack, regions)
  /\ redo_stack' = <<>>
  /\ ed_ops' = ed_ops + 1

\* Nothing outside the tagger window changes, nor the two settings.
EdFrame == UNCHANGED <<globalVars, escVars, buildVars, entVars, zoneVars>>

\* The handler returns, with or without a message: no state changed.
EdReturn(msg) ==
  /\ ed_msg' = msg
  /\ UNCHANGED <<ed_doc, st_page_index, regions, selected_region, lb_sel,
                 undo_stack, redo_stack, payload, ed_ops>>

\* open_pdf, on the first document the user opens.
ed_open_pdf ==
  /\ ed_doc = 0
  /\ \E d \in DOMAIN EdDocs : ed_doc' = d
  /\ st_page_index' = 0
  /\ regions' = EmptyMap
  /\ undo_stack' = <<>> /\ redo_stack' = <<>>
  /\ lb_sel' = -1
  /\ ed_msg' = "open"
  /\ UNCHANGED <<selected_region, payload, ed_ops>>
  /\ EdFrame

\* canvas_mouse_up, after canvas_mouse_down set drag_start
canvas_mouse_up ==
  /\ ed_doc # 0
  /\ ed_ops < MaxEdOps
  /\ \E d \in EdDrags :
       LET rect == rect_normalize(d)
           regs0 == RegsOf(regions, st_page_index)
           rid == generate_region_id(st_page_index, Len(regs0))
           rdict == Region(rid, rect, NewRegionText(EdPage, rect), Chars("p"))
       IN  IF rect[3] - rect[1] < 2 \/ rect[4] - rect[2] < 2
             THEN EdReturn("none")
             ELSE /\ EdPushUndo
                  /\ regions' = SetRegs(regions, st_page_index, Append(regs0, rdict))
                  /\ lb_sel' = -1
                  /\ ed_msg' = "created"
                  /\ UNCHANGED <<ed_doc, st_page_index, selected_region, payload>>
  /\ EdFrame

\* listbox_select: the user picks a row of the listbox
listbox_select ==
  /\ ed_ops < MaxEdOps
  /\ \E idx \in 0..(Len(RegsOf(regions, st_page_index)) - 1) :
       /\ ed_doc # 0
       /\ lb_sel' = idx
       /\ selected_region' = [page |-> st_page_index, idx |-> idx]
  /\ ed_msg' = "selected"
  /\ UNCHANGED <<ed_doc, st_page_index, regions, undo_stack, redo_stack, payload, ed_ops>>
  /\ EdFrame

\* for idx in range(len(regs)-1, -1, -1): the last region holding the point
FoundIdx(regs0, px, py) ==
  LET hits == {i \in DOMAIN regs0 :
                 /\ regs0[i].rect[1] <= px /\ px <= regs0[i].rect[3]
                 /\ regs0[i].rect[2] <= py /\ py <= regs0[i].rect[4]}
  IN  IF hits = {} THEN -1 ELSE MaxOf(hits) - 1

canvas_right_click ==
  /\ ed_doc # 0
  /\ ed_ops < MaxEdOps
  /\ \E pt \in EdPoints :
       LET found_idx == FoundIdx(RegsOf(regions, st_page_index), pt[1], pt[2])
       IN  IF found_idx # -1
             THEN /\ selected_region' = [page |-> st_page_index, idx |-> found_idx]
                  /\ lb_sel' = found_idx
             ELSE /\ selected_region' = None
                  /\ lb_sel' = -1
  /\ ed_msg' = "right click"
  /\ UNCHANGED <<ed_doc, st_page_index, regions, undo_stack, redo_stack, payload, ed_ops>>
  /\ EdFrame

\* seq without its element at the zero-based index idx: regs.pop(idx)
PopAt(s, idx) == SubSeq(s, 1, idx) \o SubSeq(s, idx + 2, Len(s))

delete_region ==
  /\ ed_ops < MaxEdOps
  /\ IF lb_sel = -1 THEN EdReturn("Select a region to delete")
     ELSE LET regs0 == RegsOf(regions, st_page_index)
          IN  IF 0 <= lb_sel /\ lb_sel < Len(regs0)
                THEN /\ EdPushUndo
                     /\ regions' = [regions EXCEPT ![st_page_index] = PopAt(regs0, lb_sel)]
                     /\ lb_sel' = -1
                     /\ ed_msg' = "deleted"
                     /\ UNCHANGED <<ed_doc, st_page_index, selected_region, payload>>
                ELSE EdReturn("none")
  /\ EdFrame

do_undo ==
  /\ IF undo_stack = <<>> THEN EdReturn("Nothing to undo")
     ELSE /\ redo_stack' = Append(redo_stack, regions)
          /\ regions' = Last(undo_stack)
          /\ undo_stack' = SubSeq(undo_stack, 1, Len(undo_stack) - 1)
          /\ selected_region' = None
          /\ lb_sel' = -1
          /\ ed_msg' = "undo"
          /\ UNCHANGED <<ed_doc, st_page_index, payload, ed_ops>>
  /\ EdFrame

do_redo ==
  /\ IF redo_stack = <<>> THEN EdReturn("Nothing to redo")
     ELSE /\ undo_stack' = Append(undo_stack, regions)
          /\ regions' = Last(redo_stack)
          /\ redo_stack' = SubSeq(redo_stack, 1, Len(redo_stack) - 1)
          /\ selected_region' = None
          /\ lb_sel' = -1
          /\ ed_msg' = "redo"
          /\ UNCHANGED <<ed_doc, st_page_index, payload, ed_ops>>
  /\ EdFrame

\* The two halves that replace regs[idx]: regs.pop(idx), then the lower half
\* and the upper half inserted at idx, each with an id made of the length of
\* the list at that moment.
SplitRegs(regs0, idx, split_y, pidx) ==
  LET r == regs0[idx + 1]
      n == Len(regs0)
      r1 == <<r.rect[1], r.rect[2], r.rect[3], split_y>>
      r2 == <<r.rect[1], split_y, r.rect[3], r.rect[4]>>
  IN  SubSeq(regs0, 1, idx)
        \o << Region(generate_region_id(pidx, n), r1, <<>>, r.tag),
              Region(generate_region_id(pidx, n - 1), r2, <<>>, r.tag) >>
        \o SubSeq(regs0, idx + 2, n)

\* The zero-based index of the first region with this id, or -1.
IndexOfId(regs0, pid) ==
  LET hits == {i \in DOMAIN regs0 : regs0[i].id = pid}
  IN  IF hits = {} THEN -1 ELSE MinOf(hits) - 1

\* re.sub(r"<.*?>", "", inner), from position i on
RECURSIVE RemoveTagsFrom(_, _)
RemoveTagsFrom(t, i) ==
  LET closes(lt) == {gt \in (lt + 1)..Len(t) :
                       t[gt] = ">" /\ \A k \in (lt + 1)..(gt - 1) : t[k] # "\n"}
      opens == {lt \in i..Len(t) : t[lt] = "<" /\ closes(lt) # {}}
  IN  IF opens = {} THEN SubSeq(t, i, Len(t))
      ELSE SubSeq(t, i, MinOf(opens) - 1)
             \o RemoveTagsFrom(t, MinOf(closes(MinOf(opens))) + 1)

\* The inner text of the element the preview shows for the region: text_esc
\* of build_nested_sections_from_regions.
PreviewInner(page, r) ==
  LET text == IF r.text # <<>> THEN r.text ELSE extract_text_from_rect(page, r.rect)
      text_ent == IF AUTO_ENTITIES THEN Transcoded(text) ELSE text
  IN  Escaped(text_ent)

\* split_region_at_html_cursor: the cursor is in the <p> element of region k,
\* rel characters into its plain text.
split_region_at_html_cursor ==
  /\ ed_ops < MaxEdOps
  /\ LET regs0 == IF ed_doc = 0 THEN <<>> ELSE RegsOf(regions, st_page_index)
         in_p == {k \in DOMAIN regs0 : RegionTag(regs0[k]) = Chars("p")}
     IN  IF in_p = {}
           THEN EdReturn("Could not find a paragraph containing the cursor.")
           ELSE \E k \in in_p :
                \E inner_plain \in {RemoveTagsFrom(PreviewInner(EdPage, regs0[k]), 1)} :
                  LET pid == regs0[k].id
                      total == IF Len(inner_plain) > 0 THEN Len(inner_plain) ELSE 1
                      idx == IndexOfId(regs0, pid)
                      rect == regs0[idx + 1].rect
                      height == rect[4] - rect[2]
                  IN  \E rel \in 0..Len(inner_plain) :
                        \* the cursor offsets at which split_y is a whole number
                        /\ (height * rel) % total = 0
                        /\ EdPushUndo
                        /\ regions' = [regions EXCEPT ![st_page_index] =
                             SplitRegs(regs0, idx, rect[2] + (height * rel) \div total,
                                       st_page_index)]
                        /\ lb_sel' = -1
                        /\ ed_msg' = "split at cursor"
                        /\ UNCHANGED <<ed_doc, st_page_index, selected_region, payload>>
  /\ EdFrame

\* The word canvas_click_word takes: the first one holding the point, else the
\* first at the least distance from its centre; 0 when the page has no word.
NearestLine(page, px, py) ==
  LET holds == {i \in DOMAIN page : bbox_contains(page[i].bbox, px, py)}
      least == {i \in DOMAIN page :
                  \A j \in DOMAIN page :
                    CentreDist2(page[i].bbox, px, py) <= CentreDist2(page[j].bbox, px, py)}
  IN  IF page = <<>> THEN 0
      ELSE IF holds # {} THEN MinOf(holds) ELSE MinOf(least)

canvas_click_word ==
  /\ ed_doc # 0
  /\ ed_ops < MaxEdOps
  /\ \E pt \in EdPoints :
       LET nearest == NearestLine(EdPage, pt[1], pt[2])
           split_y == EdPage[nearest].bbox[4]
           regs0 == RegsOf(regions, st_page_index)
           hits == {i \in DOMAIN regs0 :
                      /\ regs0[i].rect[1] <= pt[1] /\ pt[1] <= regs0[i].rect[3]
                      /\ regs0[i].rect[2] <= split_y /\ split_y <= regs0[i].rect[4]}
       IN  IF nearest = 0 \/ hits = {} THEN EdReturn("none")
           ELSE /\ EdPushUndo
                /\ regions' = [regions EXCEPT ![st_page_index] =
                     SplitRegs(regs0, MinOf(hits) - 1, split_y, st_page_index)]
                /\ lb_sel' = -1
                /\ ed_msg' = "split at word"
                /\ UNCHANGED <<ed_doc, st_page_index, selected_region, payload>>
  /\ EdFrame

\* regs[idx]['tag'] = tag; regs[idx]['id'] = f"{tag}_{regs[idx]['id']}"
Retag(r, tag) == Region(tag \o <<"_">> \o r.id, r.rect, r.text, tag)

set_tag_for_selected ==
  /\ ed_ops < MaxEdOps
  /\ \E tag \in EdTags :
       IF selected_region = None THEN EdReturn("Select a region first.")
       ELSE LET pidx == selected_region.page
                idx == selected_region.idx
                regs0 == RegsOf(regions, pidx)
            IN  IF ~(0 <= idx /\ idx < Len(regs0)) THEN EdReturn("none")
                ELSE /\ EdPushUndo
                     /\ regions' = [regions EXCEPT ![pidx] =
                          [regs0 EXCEPT ![idx + 1] = Retag(regs0[idx + 1], tag)]]
                     /\ lb_sel' = -1
                     /\ ed_msg' = "tagged"
                     /\ UNCHANGED <<ed_doc, st_page_index, selected_region, payload>>
  /\ EdFrame

key_tag_handler ==
  /\ ed_ops < MaxEdOps
  /\ \E new_tag \in EdTags :
       IF selected_region = None THEN EdReturn("none")
       ELSE LET page_idx == selected_region.page
                reg_idx == selected_region.idx
                regs0 == RegsOf(regions, page_idx)
            IN  IF ~(0 <= reg_idx /\ reg_idx < Len(regs0)) THEN EdReturn("none")
                ELSE LET reg == Retag(regs0[reg_idx + 1], new_tag)
                         regs_now == [regs0 EXCEPT ![reg_idx + 1] = reg]
                         i == IndexOfId(regs_now, reg.id)
                     IN  /\ EdPushUndo
                         /\ regions' = [regions EXCEPT ![page_idx] = regs_now]
                         /\ selected_region' = [page |-> page_idx, idx |-> i]
                         /\ lb_sel' = i
                         /\ ed_msg' = "tagged by key"
                         /\ UNCHANGED <<ed_doc, st_page_index, payload>>
  /\ EdFrame

\* blocks.sort(key=lambda b: b[1]): a stable sort by the top edge
RECURSIVE SortBlocks(_)
SortBlocks(bs) ==
  IF bs = <<>> THEN <<>>
  ELSE LET rest == SortBlocks(Tail(bs))
           k == Cardinality({i \in DOMAIN rest : rest[i].bbox[2] < Head(bs).bbox[2]})
       IN  SubSeq(rest, 1, k) \o <<Head(bs)>> \o SubSeq(rest, k + 1, Len(rest))

\* sorted(xs) of a list of integers
RECURSIVE SortInts(_)
SortInts(xs) ==
  IF xs = <<>> THEN <<>>
  ELSE LET rest == SortInts(Tail(xs))
           k == Cardinality({i \in DOMAIN rest : rest[i] < Head(xs)})
       IN  SubSeq(rest, 1, k) \o <<Head(xs)>> \o SubSeq(rest, k + 1, Len(rest))

\* sorted([g for g in gaps if g>=0] + [0])[len(gaps)//2] if gaps else 0
MedianGap(blocks) ==
  LET gaps == [i \in 1..(Len(blocks) - 1) |-> blocks[i + 1].bbox[2] - blocks[i].bbox[4]]
  IN  IF gaps = <<>> THEN 0
      ELSE SortInts(Append(SelectSeq(gaps, LAMBDA g : g >= 0), 0))[(Len(gaps) \div 2) + 1]

\* gap > max(5, median_gap * 1.5)
OverThreshold(gap, median_gap) == gap > 5 /\ 2 * gap > 3 * median_gap

\* The loop "for b in blocks" from block i on: cur is the box being grown.
RECURSIVE DetectFrom(_, _, _, _)
DetectFrom(blocks, i, cur, median_gap) ==
  IF i > Len(blocks) THEN <<cur>>
  ELSE LET b == blocks[i].bbox
       IN  IF OverThreshold(b[2] - cur[4], median_gap)
             THEN <<cur>> \o DetectFrom(blocks, i + 1, b, median_gap)
             ELSE DetectFrom(blocks, i + 1,
                    <<Min(cur[1], b[1]), cur[2], Max(cur[3], b[3]), Max(cur[4], b[4])>>,
                    median_gap)

regs_calc(page) ==
  LET blocks == SortBlocks(page)
  IN  IF blocks = <<>> THEN <<>>
      ELSE DetectFrom(blocks, 2, blocks[1].bbox, MedianGap(blocks))

\* page_regs.append(...) for each detected rect
RECURSIVE AppendDetected(_, _, _, _)
AppendDetected(page_regs, rects, page, page_idx) ==
  IF rects = <<>> THEN page_regs
  ELSE AppendDetected(
         Append(page_regs,
                Region(generate_region_id(page_idx, Len(page_regs)), Head(rects),
                       NewRegionText(page, Head(rects)), Chars("p"))),
         Tail(rects), page, page_idx)

auto_detect ==
  /\ ed_doc # 0
  /\ ed_ops < MaxEdOps
  /\ LET rects == regs_calc(EdPage)
     IN  /\ IF rects # <<>> THEN EdPushUndo
            ELSE UNCHANGED <<undo_stack, redo_stack, ed_ops>>
         /\ regions' = SetRegs(regions, st_page_index,
              AppendDetected(RegsOf(regions, st_page_index), rects, EdPage, st_page_index))
  /\ lb_sel' = -1
  /\ ed_msg' = "detected"
  /\ UNCHANGED <<ed_doc, st_page_index, selected_region, payload>>
  /\ EdFrame

\* export_json, the first export of the run: what json.dump writes, keyed by page
export_json ==
  /\ payload = None
  /\ ed_ops < MaxEdOps
  /\ IF ed_doc = 0 THEN EdReturn("Open a PDF first")
     ELSE /\ payload' = [pages |-> regions]
          /\ ed_msg' = "Exported"
          /\ UNCHANGED <<ed_doc, st_page_index, regions, selected_region, lb_sel,
                         undo_stack, redo_stack, ed_ops>>
  /\ EdFrame

\* A file that another program wrote.
ForeignFile ==
  [pages |-> (0 :> << Region(Chars("a"), <<90, 32, 10, 10>>, <<"U+00A9">>, Chars("p")) >>)]

\* The files the user can pick in import_json.
ImportFiles == {ForeignFile} \cup (IF payload = None THEN {} ELSE {payload})

\* Variant: the text is taken from the file as it is.
ImportRecordRaw(r) == Region(r.id, r.rect, r.text, r.tag)

\* The record import_json makes of a record of the file.
ImportRecord(r) ==
  Region(r.id, r.rect, IF AUTO_ENTITIES THEN Transcoded(r.text) ELSE r.text, r.tag)

new_regs(pages) ==
  [k \in DOMAIN pages |-> [i \in DOMAIN pages[k] |-> ImportRecord(pages[k][i])]]

import_json ==
  /\ ed_ops < MaxEdOps
  /\ \E file \in ImportFiles :
       /\ regions' = new_regs(file.pages)
       /\ ed_msg' = IF file = ForeignFile THEN "imported" ELSE "imported own export"
  /\ EdPushUndo
  /\ lb_sel' = -1
  /\ UNCHANGED <<ed_doc, st_page_index, selected_region, payload>>
  /\ EdFrame

ed_prev_page ==
  /\ ed_doc # 0
  /\ ed_ops < MaxEdOps
  /\ st_page_index > 0
  /\ st_page_index' = st_page_index - 1
  /\ selected_region' = None
  /\ lb_sel' = -1
  /\ ed_msg' = "page"
  /\ UNCHANGED <<ed_doc, regions, undo_stack, redo_stack, payload, ed_ops>>
  /\ EdFrame

ed_next_page ==
  /\ ed_doc # 0
  /\ ed_ops < MaxEdOps
  /\ st_page_index < Len(EdDocs[ed_doc]) - 1
  /\ st_page_index' = st_page_index + 1
  /\ selected_region' = None
  /\ lb_sel' = -1
  /\ ed_msg' = "page"
  /\ UNCHANGED <<ed_doc, regions, undo_stack, redo_stack, payload, ed_ops>>
  /\ EdFrame

\* The sum and the number of the font sizes of the spans inside the rect: the
\* average is total_sz / count, or 0.0 when count is 0.
SizedLines(page, rect) == SelectSeq(ClipLines(page, rect), LAMBDA l : l.size # 0)

RECURSIVE SumSizes(_)
SumSizes(ls) == IF ls = <<>> THEN 0 ELSE Head(ls).size + SumSizes(Tail(ls))

total_sz(page, rect) == SumSizes(SizedLines(page, rect))
count(page, rect) == Len(SizedLines(page, rect))

\* avg as the fraction num / den
AvgNum(page, rect) == total_sz(page, rect)
AvgDen(page, rect) == IF count(page, rect) > 0 THEN count(page, rect) ELSE 1

\* The index of a region whose average is max(sizes).
MaxAvgIdx(page, regs0) ==
  CHOOSE i \in DOMAIN regs0 :
    \A j \in DOMAIN regs0 :
      AvgNum(page, regs0[i].rect) * AvgDen(page, regs0[j].rect)
        >= AvgNum(page, regs0[j].rect) * AvgDen(page, regs0[i].rect)

\* Variant: the thresholds taken inclusive.
new_tag_inclusive(num, den, max_num, max_den) ==
  IF 10 * num * max_den >= 9 * max_num * den THEN Chars("h1")
  ELSE IF 100 * num * max_den >= 75 * max_num * den THEN Chars("h2")
  ELSE IF 10 * num * max_den >= 6 * max_num * den THEN Chars("h3")
  ELSE Chars("p")

\* ratio = avg / max_sz; ratio > 0.9, > 0.75, > 0.6, with avg = num / den and
\* max_sz = max_num / max_den > 0
new_tag(num, den, max_num, max_den) ==
  IF 10 * num * max_den > 9 * max_num * den THEN Chars("h1")
  ELSE IF 100 * num * max_den > 75 * max_num * den THEN Chars("h2")
  ELSE IF 10 * num * max_den > 6 * max_num * den THEN Chars("h3")
  ELSE Chars("p")

\* Variant: only a negative maximum stops the inference.
max_sz_negative(max_num) == max_num < 0

\* if max_sz <= 0
max_sz_not_positive(max_num) == max_num <= 0

infer_headings_for_page ==
  /\ ed_ops < MaxEdOps
  /\ IF ed_doc = 0 THEN EdReturn("Open a PDF first")
     ELSE LET regs0 == RegsOf(regions, st_page_index)
          IN  IF regs0 = <<>>
                THEN EdReturn("No regions on this page to infer headings for.")
              ELSE LET m == MaxAvgIdx(EdPage, regs0)
                       max_num == AvgNum(EdPage, regs0[m].rect)
                       max_den == AvgDen(EdPage, regs0[m].rect)
                   IN  IF max_sz_not_positive(max_num)
                         THEN EdReturn("Could not detect font sizes on this page.")
                         ELSE /\ EdPushUndo
                              /\ regions' = [regions EXCEPT ![st_page_index] =
                                   [i \in DOMAIN regs0 |->
                                      Retag(regs0[i],
                                            new_tag(AvgNum(EdPage, regs0[i].rect),
                                                    AvgDen(EdPage, regs0[i].rect),
                                                    max_num, max_den))]]
                              /\ lb_sel' = -1
                              /\ ed_msg' = "Heading inference completed for current page."
                              /\ UNCHANGED <<ed_doc, st_page_index, selected_region, payload>>
  /\ EdFrame

InitEditor == GlobalsInit /\ EscIdle /\ BuildIdle /\ EntIdle /\ ZoneIdle /\ EdIdle

NextEditor ==
  \/ ed_open_pdf
  \/ toggle_auto_entities
  \/ canvas_mouse_up
  \/ listbox_select
  \/ canvas_right_click
  \/ split_region_at_html_cursor
  \/ canvas_click_word
  \/ set_tag_for_selected
  \/ key_tag_handler
  \/ auto_detect
  \/ export_json
  \/ import_json
  \/ delete_region
  \/ ed_prev_page
  \/ ed_next_page
  \/ infer_headings_for_page
  \/ do_undo
  \/ do_redo

SpecEditor == InitEditor /\ [][NextEditor]_vars

-----------------------------------------------------------------------------
(* ---------------- Tagger window: export then import -------------------- *)

\* The step imports the file that export_json wrote of the regions as they
\* are now, with AUTO_ENTITIES on.
ImportsOwnExport ==
  /\ import_json
  /\ ed_msg' = "imported own export"
  /\ AUTO_ENTITIES
  /\ payload # None /\ payload.pages = regions

\* Same pages, same number of regions, and the same id, rect and tag.
SameButText(rm1, rm2) ==
  /\ DOMAIN rm1 = DOMAIN rm2
  /\ \A k \in DOMAIN rm1 :
       /\ Len(rm1[k]) = Len(rm2[k])
       /\ \A i \in DOMAIN rm1[k] :
            /\ rm1[k][i].id = rm2[k][i].id
            /\ rm1[k][i].rect = rm2[k][i].rect
            /\ rm1[k][i].tag = rm2[k][i].tag

\* All the region texts of a region map.
TextsOf(rm) == {rm[k][i].text : <<k, i>> \in {x \in (DOMAIN rm) \X (1..8) :
                                                x[2] \in DOMAIN rm[x[1]]}}

\* C11 as stated: with AUTO_ENTITIES on, importing the exported records gives
\* regions with the same id, rect, text and tag as before the export, and
\* transcoding is idempotent on every text involved.
C11_RoundTripSame ==
  [][ImportsOwnExport =>
       /\ regions' = regions
       /\ \A t \in TextsOf(regions) :
            apply_html_entities(apply_html_entities(t)) = apply_html_entities(t)]_vars

\* C11 amended: the import keeps id, rect and tag of every region and replaces
\* its text by its transcoding; the text is unchanged exactly when it holds no
\* character of the symbol table, as every text made while AUTO_ENTITIES was
\* on; transcoding is idempotent.
C11_RoundTripTranscodes ==
  [][ImportsOwnExport =>
       /\ SameButText(regions, regions')
       /\ \A k \in DOMAIN regions : \A i \in DOMAIN regions[k] :
            LET t == regions[k][i].text
                u == regions'[k][i].text
            IN  /\ u = apply_html_entities(t)
                /\ apply_html_entities(u) = u
                /\ (u = t) <=> (Range(t) \cap EntityKeys = {})]_vars

\* The file just imported was the export of the regions before the import,
\* and the import changed the text of a region made while the toggle was off.
C11_Witness ==
  /\ ed_msg = "imported own export"
  /\ AUTO_ENTITIES
  /\ undo_stack # <<>> /\ payload # None
  /\ payload.pages = Last(undo_stack)
  /\ regions # Last(undo_stack)
  /\ SameButText(regions, Last(undo_stack))

\* The same with nothing changed: every text was made with the toggle on.
C11_WitnessLossless ==
  /\ ed_msg = "imported own export"
  /\ AUTO_ENTITIES
  /\ undo_stack # <<>> /\ payload # None
  /\ payload.pages = Last(undo_stack)
  /\ regions = Last(undo_stack)
  /\ \E k \in DOMAIN regions : \E i \in DOMAIN regions[k] :
       regions[k][i].text = Chars("A\n&copy;")

(* ---------------- Tagger window: heading inference --------------------- *)

CurRegs == RegsOf(regions, st_page_index)

\* The average font size of region i of the current page is num / den.
AvgIs(i, num, den) ==
  AvgNum(EdPage, CurRegs[i].rect) * den = num * AvgDen(EdPage, CurRegs[i].rect)

\* avg_i / max_sz compared with pct / 100, max_sz being the average of region m
RatioOver(i, m, pct) ==
  100 * AvgNum(EdPage, CurRegs[i].rect) * AvgDen(EdPage, CurRegs[m].rect)
    > pct * AvgNum(EdPage, CurRegs[m].rect) * AvgDen(EdPage, CurRegs[i].rect)

RatioExactly(i, m, pct) ==
  100 * AvgNum(EdPage, CurRegs[i].rect) * AvgDen(EdPage, CurRegs[m].rect)
    = pct * AvgNum(EdPage, CurRegs[m].rect) * AvgDen(EdPage, CurRegs[i].rect)

\* The step is an inference that classified the regions of the current page.
InferenceDone ==
  /\ infer_headings_for_page
  /\ ed_msg' = "Heading inference completed for current page."

NewTags == [i \in DOMAIN CurRegs |-> regions'[st_page_index][i].tag]

C12_WitnessOnThreshold ==
  /\ ed_msg = "Heading inference completed for current page."
  /\ ed_doc # 0 /\ Len(CurRegs) = 4
  /\ AvgIs(1, 10, 1) /\ AvgIs(2, 9, 1) /\ AvgIs(3, 6, 1)
  /\ count(EdPage, CurRegs[4].rect) = 0
  /\ [i \in 1..4 |-> CurRegs[i].tag]
       = <<Chars("h1"), Chars("h2"), Chars("p"), Chars("p")>>

\* The inference runs on a page without regions, or whose regions all have
\* an average font size that is not positive.
NothingToInfer ==
  /\ infer_headings_for_page
  /\ ed_doc # 0
  /\ \/ CurRegs = <<>>
     \/ \A i \in DOMAIN CurRegs : AvgNum(EdPage, CurRegs[i].rect) <= 0

\* C13: on a page with no regions, or whose maximum average font size is not
\* positive, the inference reports the condition and changes nothing: tags and
\* ids stay, and no undo snapshot is pushed.
C13_SkippedInferenceChangesNothing ==
  [][NothingToInfer =>
       /\ ed_msg' = (IF CurRegs = <<>>
                       THEN "No regions on this page to infer headings for."
                       ELSE "Could not detect font sizes on this page.")
       /\ regions' = regions
       /\ undo_stack' = undo_stack
       /\ redo_stack' = redo_stack]_vars

\* The inference has just reported a page whose only region holds the
\* unsized line.
C13_Witness ==
  /\ ed_msg = "Could not detect font sizes on this page."
  /\ ed_doc # 0 /\ CurRegs # <<>>
  /\ \A i \in DOMAIN CurRegs : CurRegs[i].tag = Chars("p")
  /\ Len(undo_stack) = 1

\* The inference has just reported a page without regions.
C13_WitnessNoRegions ==
  /\ ed_msg = "No regions on this page to infer headings for."
  /\ ed_doc # 0 /\ CurRegs = <<>>

(* ---------------- Tagger window: region ids and rectangles ------------- *)

\* C17: on every page the ids of the regions are pairwise distinct, whatever
\* operations made them: create by drag, auto-detect, delete, split at the
\* HTML cursor, split at a word, re-tag, infer headings, undo, redo.
C17_IdsDistinct ==
  \A k \in DOMAIN regions :
    \A i \in DOMAIN regions[k] : \A j \in DOMAIN regions[k] :
      i # j => regions[k][i].id # regions[k][j].id

\* C18: every region held by the editor has x0 <= x1 and y0 <= y1, after drag
\* creation, auto-detect, split at the HTML cursor, split at a word and JSON
\* import.
C18_RectsOrdered ==
  \A k \in DOMAIN regions :
    \A i \in DOMAIN regions[k] :
      /\ regions[k][i].rect[1] <= regions[k][i].rect[3]
      /\ regions[k][i].rect[2] <= regions[k][i].rect[4]


-----------------------------------------------------------------------------
(* Section builder: the shape of the section tree and of the section ids *)

\* The levels of the sections an output stream leaves open, bottom first,
\* found by reading the stream: an opening tag pushes its level, a closing
\* tag pops; <<-1>> when a closing tag meets no open section.
RECURSIVE Unclosed(_, _, _)
Unclosed(stream, p, stack) ==
  IF p > Len(stream) THEN stack
  ELSE IF stream[p].kind = "open" THEN Unclosed(stream, p + 1, Append(stack, stream[p].lvl))
  ELSE IF stream[p].kind = "leaf" THEN Unclosed(stream, p + 1, stack)
  ELSE IF stack = <<>> THEN <<-1>>
  ELSE Unclosed(stream, p + 1, SubSeq(stack, 1, Len(stack) - 1))

StrictlyIncreasing(stack) == \A i \in 1..(Len(stack) - 1) : stack[i] < stack[i + 1]

\* C21: for every region list the section tags of the output nest: no
\* closing tag comes without an open section, during the loop the sections
\* the output leaves open are exactly the entries of open_stack (so a closing
\* tag closes the section opened last), open_stack is strictly increasing in
\* level from bottom to top, and when the builder has returned every section
\* is closed, by exactly one closing tag.
C21_WellFormedTree ==
  /\ Unclosed(out, 1, <<>>) # <<-1>>
  /\ StrictlyIncreasing(open_stack)
  /\ bpc = "loop" => Unclosed(out, 1, <<>>) = open_stack
  /\ bpc = "done" =>
       /\ Unclosed(out, 1, <<>>) = <<>>
       /\ open_stack = <<>>
       /\ Cardinality(OpenIdx) = Cardinality(CloseIdx)

\* A list that starts with h3 (no h1 or h2 before it), goes up to h1, skips to
\* h4 and repeats a level, built to the end.
C21_Witness ==
  /\ bpc = "done"
  /\ TagsOf(regs) = <<Chars("h3"), Chars("h1"), Chars("h4"), Chars("h2"), Chars("h2")>>
  /\ Cardinality(OpenIdx) = 6

\* The stack at its deepest after levels out of order: h2, h1, h3, h4.
C21_WitnessDeep ==
  /\ bpc = "loop"
  /\ SubSeq(TagsOf(regs), 1, ridx) = <<Chars("h2"), Chars("h1"), Chars("h3"), Chars("h4")>>
  /\ open_stack = <<0, 1, 3, 4>>

\* The heading levels of the region list: 0 for a region that is no heading.
LevelsOf(rs) ==
  [j \in DOMAIN rs |-> IF RegionTag(rs[j]) \in HeadingTags
                         THEN HeadingLevel(RegionTag(rs[j])) ELSE 0]

\* The number of headings of level m among the regions 1..j that come after
\* the last heading of a level above m (a smaller number).
CountSince(lv, j, m) ==
  LET above == {a \in 1..j : lv[a] >= 1 /\ lv[a] < m}
      from == IF above = {} THEN 0 ELSE MaxOf(above)
  IN  Cardinality({a \in (from + 1)..j : lv[a] = m})

\* The region whose heading leaf follows the opening tag at position i of out.
RegionOfOpen(i) == CHOOSE j \in DOMAIN regs : regs[j].id = out[i + 1].id

HeadingOpens == {i \in OpenIdx : out[i].lvl >= 1}

\* C22 as stated: in every section id each component after the page number
\* is an integer >= 1, also when a level is used before the level above it.
C22_ComponentsPositive ==
  \A i \in OpenIdx : \A c \in 2..Len(out[i].nums) : out[i].nums[c] >= 1

\* C22, amended: in the id of the section a heading of level L opens, the
\* component of each level m in 1..L is the number of headings of level m,
\* up to and including this one, since the last heading of a level above m.
\* So the last component is >= 1, starts at 1 and restarts at 1 after a
\* heading of a level above; a component of a level m < L is 0 exactly when
\* no heading of level m came since the last heading of a level above m.
C22_ComponentsCountSiblings ==
  \E lv \in {LevelsOf(regs)} :
    \A i \in HeadingOpens :
      LET j == RegionOfOpen(i)
          L == out[i].lvl
      IN  /\ L = lv[j]
          /\ \A m \in 1..L : out[i].nums[m + 1] = CountSince(lv, j, m)
          /\ out[i].nums[L + 1] >= 1

\* h1, h2, h1, h3: the second h1 resets the counter of level 2, and the h3
\* that follows has no h2 above it: its id is page.2.0.1.
C22_Witness ==
  /\ bpc = "done"
  /\ TagsOf(regs) = <<Chars("h1"), Chars("h2"), Chars("h1"), Chars("h3")>>
  /\ \E i \in HeadingOpens : out[i].nums = <<page_index + 1, 2, 0, 1>>
  /\ \E i \in HeadingOpens : out[i].nums = <<page_index + 1, 1, 1>>

\* h1, h2, h1, h2: the sibling counter of level 2 restarts at 1.
C22_WitnessRestart ==
  /\ bpc = "done"
  /\ TagsOf(regs) = <<Chars("h1"), Chars("h2"), Chars("h1"), Chars("h2")>>
  /\ \E i \in HeadingOpens : out[i].nums = <<page_index + 1, 2, 1>>


-----------------------------------------------------------------------------
(* Escaper: which ampersands are escaped *)

AllIn(sq, class) == \A i \in DOMAIN sq : sq[i] \in class

\* The text between an ampersand and a semicolon is the body of an entity:
\* a letter and one or more letters or digits, or # and one or more digits
\* 0-9, or #x and one or more hex digits.
EntityBody(body) ==
  \/ /\ Len(body) >= 2 /\ body[1] \in AlphaChars /\ AllIn(body, AlnumChars)
  \/ /\ Len(body) >= 2 /\ body[1] = "#" /\ AllIn(Tail(body), DigitChars)
  \/ /\ Len(body) >= 3 /\ body[1] = "#" /\ body[2] = "x" /\ AllIn(Tail(Tail(body)), HexChars)

\* The ampersand at position p of text starts an entity that ends within the
\* AmpWindow characters after it.
StartsEntity(text, p) ==
  \E e \in (p + 1)..Min(p + AmpWindow, Len(text)) :
    text[e] = ";" /\ EntityBody(SubSeq(text, p + 1, e - 1))

\* text with every ampersand that starts no entity replaced by &amp;.
AmpEscaped(text) ==
  Flatten([p \in DOMAIN text |->
             IF text[p] = "&" /\ ~StartsEntity(text, p) THEN Chars("&amp;")
             ELSE <<text[p]>>])

\* C23: on a span text without angle brackets, the escaper replaces an
\* ampersand by &amp; unless within the next 30 characters it starts an
\* entity: a letter and one or more letters or digits, # and one or more
\* digits 0-9, or #x and one or more hex digits, then a semicolon; every other
\* ampersand is escaped and every other character is output unchanged.
C23_AmpEscapedUnlessEntity ==
  (epc = "text" /\ escaped # <<>>) =>
    escaped[1] = wrap_span_text(AmpEscaped(span), is_bold, is_italic)


-----------------------------------------------------------------------------
(* Split/merge editor: what a split at the point and a merge produce *)

\* k is the first word of ws, in list order, whose centre is nearest to (x, y).
FirstNearest(ws, k, x, y) ==
  /\ k \in DOMAIN ws
  /\ \A j \in DOMAIN ws : CentreDist2(ws[k], x, y) <= CentreDist2(ws[j], x, y)
  /\ \A j \in 1..(k - 1) : CentreDist2(ws[k], x, y) < CentreDist2(ws[j], x, y)

\* box is the tight bounding box of the non-empty word list ws.
TightBox(box, ws) ==
  /\ \A i \in DOMAIN ws :
       box[1] <= ws[i][1] /\ box[2] <= ws[i][2] /\ box[3] >= ws[i][3] /\ box[4] >= ws[i][4]
  /\ \A c \in 1..4 : \E i \in DOMAIN ws : box[c] = ws[i][c]

\* text is the texts of parts, in order, with sep between two of them.
RECURSIVE JoinedBy(_, _, _)
JoinedBy(text, parts, sep) ==
  IF parts = <<>> THEN text = <<>>
  ELSE IF Len(parts) = 1 THEN text = parts[1]
  ELSE /\ Len(text) > Len(parts[1])
       /\ SubSeq(text, 1, Len(parts[1])) = parts[1]
       /\ text[Len(parts[1]) + 1] = sep
       /\ JoinedBy(SubSeq(text, Len(parts[1]) + 2, Len(text)), Tail(parts), sep)

\* text is the texts of the words of ws with one space between two of them.
SpaceJoined(text, ws) == JoinedBy(text, [i \in DOMAIN ws |-> ws[i][5]], " ")

SplitApplied == on_split_horizontal /\ z_msg' = "split horizontally."

\* C24: a split at the point that is applied picks the word of the paragraph
\* whose centre is nearest to the point, the first in list order on a tie;
\* the first result holds the words up to and including it and the second
\* the remaining words, in their order; each result's box is the tight
\* bounding box of its words and its text is its words joined by single
\* spaces; the two results stand where the paragraph stood, first result
\* first, and every other paragraph of the document is as before.
C24_SplitAtNearestWord ==
  [][SplitApplied =>
       LET pi == last_right_click.para_index
           old == ZoneParas
           new == paragraphs_by_page'[current_page + 1]
           ws == old[pi + 1].words
       IN  \E k \in DOMAIN ws :
             /\ FirstNearest(ws, k, last_right_click.x, last_right_click.y)
             /\ k < Len(ws)
             /\ Len(new) = Len(old) + 1
             /\ \A i \in 1..pi : new[i] = old[i]
             /\ \A i \in (pi + 2)..Len(old) : new[i + 1] = old[i]
             /\ new[pi + 1].words = SubSeq(ws, 1, k)
             /\ new[pi + 2].words = SubSeq(ws, k + 1, Len(ws))
             /\ TightBox(new[pi + 1].bbox, new[pi + 1].words)
             /\ TightBox(new[pi + 2].bbox, new[pi + 2].words)
             /\ SpaceJoined(new[pi + 1].text, new[pi + 1].words)
             /\ SpaceJoined(new[pi + 2].text, new[pi + 2].words)
             /\ \A pg \in DOMAIN paragraphs_by_page :
                  pg # current_page + 1 => paragraphs_by_page'[pg] = paragraphs_by_page[pg]
  ]_vars

\* A split just applied at a point as far from word A as from word B: the
\* first result is the word A alone.
C24_Witness ==
  /\ z_msg = "split horizontally."
  /\ z_last # None /\ z_last.op = "split_horizontal"
  /\ z_last.x = 25 /\ z_last.y = 5
  /\ z_last.para.words = <<WordA, WordB, WordC>>
  /\ paragraphs_by_page[z_last.page + 1][z_last.index + 1].words = <<WordA>>
  /\ paragraphs_by_page[z_last.page + 1][z_last.index + 2].words = <<WordB, WordC>>

\* A split just applied to a paragraph that is not the first of its page.
C24_WitnessSecondPara ==
  /\ z_msg = "split horizontally."
  /\ z_last # None /\ z_last.op = "split_horizontal" /\ z_last.index >= 1


MergeApplied == on_merge /\ z_msg' = "Paragraphs merged."

\* C25: a merge that is applied to k >= 2 contiguous paragraphs puts one
\* paragraph where the first of them stood: its text is the k texts in list
\* order joined by a line break, its box is the union bounding box of the k
\* boxes, its word list is the k word lists one after the other in list
\* order; the paragraphs before and after keep their content and order, the
\* list is k - 1 shorter, the other pages are as before, and the selection
\* is the merged paragraph alone.
C25_MergeJoinsRun ==
  [][MergeApplied =>
       LET old == ZoneParas
           new == paragraphs_by_page'[current_page + 1]
           first == MinOf(selected_indices)
           k == Cardinality(selected_indices)
           run == SubSeq(old, first + 1, first + k)
           m == new[first + 1]
       IN  /\ k >= 2
           /\ Contiguous(selected_indices)
           /\ first + k <= Len(old)
           /\ Len(new) = Len(old) - (k - 1)
           /\ \A i \in 1..first : new[i] = old[i]
           /\ \A i \in (first + k + 1)..Len(old) : new[i - (k - 1)] = old[i]
           /\ JoinedBy(m.text, [i \in 1..k |-> run[i].text], "\n")
           /\ m.bbox = << MinOf({run[i].bbox[1] : i \in 1..k}), MinOf({run[i].bbox[2] : i \in 1..k}),
                          MaxOf({run[i].bbox[3] : i \in 1..k}), MaxOf({run[i].bbox[4] : i \in 1..k}) >>
           /\ m.words = Flatten([i \in 1..k |-> run[i].words])
           /\ selected_indices' = {first}
           /\ \A pg \in DOMAIN paragraphs_by_page :
                pg # current_page + 1 => paragraphs_by_page'[pg] = paragraphs_by_page[pg]
  ]_vars

\* A merge of three paragraphs just applied.
C25_Witness ==
  /\ z_msg = "Paragraphs merged."
  /\ z_last # None /\ z_last.op = "merge" /\ z_last.count = 3
  /\ selected_indices = {z_last.index}
  /\ Len(paragraphs_by_page[z_last.page + 1][z_last.index + 1].words) = 3

\* A merge of two paragraphs just applied, with a paragraph left after them.
C25_WitnessParaAfter ==
  /\ z_msg = "Paragraphs merged."
  /\ z_last # None /\ z_last.op = "merge" /\ z_last.count = 2
  /\ Len(paragraphs_by_page[z_last.page + 1]) > z_last.index + 1


-----------------------------------------------------------------------------
(* Tagger window: undo and redo *)

\* The step changes the region list of some page, and is neither Undo nor
\* Redo, nor open_pdf, which starts a new document with no regions and
\* empty stacks.
EdMutation ==
  /\ \E p \in DOMAIN regions \cup DOMAIN regions' : RegsOf(regions', p) # RegsOf(regions, p)
  /\ ~do_undo /\ ~do_redo /\ ~ed_open_pdf

Front(sq) == SubSeq(sq, 1, Len(sq) - 1)

\* C26: a step that changes the regions (create, delete, split, re-tag,
\* auto-detect, import, infer headings) leaves on top of the undo stack the
\* region map as it was before the step; Undo makes the top of the undo stack
\* the region map and puts the map it replaces on top of the redo stack; Redo
\* makes the top of the redo stack the region map and puts the map it
\* replaces back on the undo stack.  So Undo right after the step restores
\* the map of before, and Redo right after that Undo the map of after.  Undo
\* on an empty undo stack and Redo on an empty redo stack change neither the
\* regions nor the stacks.
C26_UndoRedoRestore ==
  [][ /\ EdMutation => undo_stack' = Append(undo_stack, regions)
      /\ do_undo =>
           IF undo_stack = <<>> THEN UNCHANGED <<regions, undo_stack, redo_stack>>
           ELSE /\ regions' = Last(undo_stack)
                /\ undo_stack' = Front(undo_stack)
                /\ redo_stack' = Append(redo_stack, regions)
      /\ do_redo =>
           IF redo_stack = <<>> THEN UNCHANGED <<regions, undo_stack, redo_stack>>
           ELSE /\ regions' = Last(redo_stack)
                /\ redo_stack' = Front(redo_stack)
                /\ undo_stack' = Append(undo_stack, regions)
  ]_vars

\* Two changes, two Undos, then one Redo: the map after the first change
\* is back and the second change waits on the redo stack.
C26_Witness ==
  /\ ed_msg = "redo"
  /\ Len(undo_stack) = 1 /\ Len(redo_stack) = 1
  /\ undo_stack[1] = EmptyMap
  /\ regions # EmptyMap /\ redo_stack[1] # regions

C26_WitnessNothingToUndo ==
  ed_msg = "Nothing to undo" /\ undo_stack = <<>> /\ redo_stack # <<>>

C26_WitnessNothingToRedo ==
  ed_msg = "Nothing to redo" /\ redo_stack = <<>> /\ undo_stack # <<>>

\* C27: a step that changes the regions empties the redo stack, and Redo on
\* the empty redo stack changes neither the regions nor the stacks: after a
\* change that follows one or more Undos, Redo brings back nothing.
C27_MutationEmptiesRedo ==
  [][ /\ EdMutation => redo_stack' = <<>>
      /\ (do_redo /\ redo_stack = <<>>) =>
           (ed_msg' = "Nothing to redo" /\ UNCHANGED <<regions, undo_stack, redo_stack>>)
  ]_vars

\* Two snapshots were pushed and one is left, with nothing to redo: a change,
\* an Undo, a second change, and then a Redo that found the stack empty.
C27_Witness ==
  /\ ed_ops = 2 /\ Len(undo_stack) = 1 /\ redo_stack = <<>>
  /\ ed_msg = "Nothing to redo"
  /\ regions # EmptyMap


-----------------------------------------------------------------------------
(* Split/merge editor: the selection and the stored split point *)

\* C28: every index in selected_indices is an index into the paragraph list
\* of the current page, and merge never pops an index out of range.
C28_SelectionValid ==
  zdoc # 0 =>
    /\ \A i \in selected_indices : 0 <= i /\ i < Len(ZoneParas)
    /\ z_msg # "IndexError"


VerticalSplitApplied == on_split_vertical /\ z_msg' = "split vertically."

\* C29: a split (Return or v) that is applied is applied to the paragraph
\* that contained the right-click point when the point was set: the
\* paragraph at the stored para_index is still that paragraph.
C29_SplitOnClickedPara ==
  [][(SplitApplied \/ VerticalSplitApplied) =>
       ZoneParas[last_right_click.para_index + 1] = last_right_click.para]_vars


-----------------------------------------------------------------------------
(* Reorder editor: numbers, selection and moves *)

\* On every page the paragraph at list index i has number i + 1.
StageNumbered ==
  \A pg \in DOMAIN paragraphs_by_page :
    \A i \in DOMAIN paragraphs_by_page[pg] : paragraphs_by_page[pg][i].number = i

\* Since the last click a paragraph was moved: one index is selected, and it
\* is the index of that paragraph on its page.
StageSelectionFollows ==
  z_last # None =>
    \E i \in selected_indices :
      /\ selected_indices = {i}
      /\ i < Len(paragraphs_by_page[z_last.page + 1])
      /\ paragraphs_by_page[z_last.page + 1][i + 1].text = z_last.text

\* A move-down that came right after a move-up on the same page left the
\* list as it was before the move-up.
StageUpDownRestores ==
  (/\ z_last # None /\ z_last.op = "down"
   /\ z_last.prev # None /\ z_last.prev.op = "up" /\ z_last.prev.page = z_last.page)
    => paragraphs_by_page[z_last.page + 1] = z_last.prev.before

\* A move of the first paragraph up or of the last paragraph down changes
\* nothing and pushes no snapshot.
StageBoundaryMoveIdle ==
  (/\ zdoc # 0
   /\ \/ ctrl_up /\ selected_indices = {0}
      \/ ctrl_down /\ selected_indices = {Len(ZoneParas) - 1})
    => UNCHANGED <<paragraphs_by_page, selected_indices, z_undo_stack>>

\* C30: after every step of the reorder editor (click, move-up, move-down,
\* undo, page change) the paragraph at list index i of every page has number
\* i + 1, the one selected index is the index of the paragraph moved last, a
\* move at the list boundary changes nothing and pushes no snapshot, and
\* move-up followed by move-down restores the order.
C30_ReorderKeepsNumbersAndSelection ==
  [][ /\ StageNumbered'
      /\ StageSelectionFollows'
      /\ StageUpDownRestores'
      /\ StageBoundaryMoveIdle
      /\ z_msg' # "IndexError" ]_vars

=============================================================================
